---- MODULE Spec2Model ----
(***************************************************************************)
(* Model of the MCP configuration toolkit of the repository: the           *)
(* encryption core (src/src/utils/encryption.ts), the MCP config           *)
(* encryption CLI (src/unnamed/part_008), the secure MCP loader            *)
(* (src/src/utils/secureMcpLoader.ts), the MCP server manager              *)
(* (src/unnamed/part_007) and the auto-update subsystem (second half of    *)
(* src/src/utils/encryption.ts).                                           *)
(*                                                                         *)
(* JavaScript values are records of one shape (JNull, JStr, ...), strings  *)
(* that hold text are records [k, v] (JSON text of a value, or text that    *)
(* is not JSON), and byte buffers are symbolic terms (random bytes, a      *)
(* PBKDF2 key, a GCM ciphertext, a GCM tag).                                 *)
(***************************************************************************)
EXTENDS Integers, Sequences, FiniteSets, TLC

VARIABLES
  \* ---- encryption core exercised as a pure function
  cpc,        \* "in" | "encrypted" | "decrypted"
  cval,       \* the value handed to encryptJSON
  cpw,        \* the password handed to encryptJSON
  cpw2,       \* the password handed to decryptJSON
  cenv,       \* the result of encryptJSON
  cres,       \* the result of decryptJSON with the encryption password
  cresOther,  \* the result of decryptJSON with the password cpw2
  \* ---- the registry files and the commands that work on them
  fs,         \* path -> [exists, text]
  envKey,     \* process.env.MCP_ENCRYPTION_KEY ("" when not set)
  cwdIsHome,  \* whether process.cwd() is the home directory
  installed,  \* what is installed on disk: npm packages, virtual environments
  proc,       \* process -> the command it runs, its position and its locals
  nops,       \* commands started so far
  encSnap,    \* the registry as it was when the last envelope was written
  \* ---- the auto-update subsystem
  ucfg,       \* .auto-update.json
  ulast,      \* .last-update-check
  now,        \* Date.now()
  prev,       \* the runAutoUpdate call before the last one
  last,       \* the last runAutoUpdate call
  ncalls,     \* runAutoUpdate calls so far
  nconfigs,   \* configureUpdate calls so far
  \* ---- functions and handlers checked one call at a time
  fn,         \* the function called ("" before the call)
  arg,        \* what it is called with
  ret,        \* what it returned or threw
  \* ---- chrome-mcp
  consoleLogs,       \* let consoleLogs = []
  consoleListening,  \* let consoleListening = false
  networkRequests,   \* let networkRequests = []
  networkListening,  \* let networkListening = false
  listeners,         \* tool -> callbacks registered on the client
  client,            \* let client = null
  req,               \* request slot -> the call-tool request in it and its position
  nreqs              \* requests received so far

cryptoVars == <<cpc, cval, cpw, cpw2, cenv, cres, cresOther>>

regVars == <<fs, envKey, cwdIsHome, installed, proc, nops, encSnap>>

updVars == <<ucfg, ulast, now, prev, last, ncalls, nconfigs>>

fnVars == <<fn, arg, ret>>

\* what the encryption core, the registry commands and the updater leave alone
chromeVars == <<consoleLogs, consoleListening, networkRequests, networkListening,
                listeners, client, req, nreqs>>

restVars == <<fnVars, chromeVars>>

vars == <<cpc, cval, cpw, cpw2, cenv, cres, cresOther, fs, envKey, cwdIsHome, installed,
          proc, nops, encSnap, ucfg, ulast, now, prev, last, ncalls, nconfigs,
          fn, arg, ret, consoleLogs, consoleListening, networkRequests, networkListening,
          listeners, client, req, nreqs>>

(***************************************************************************)
(* Bounds                                                                  *)
(***************************************************************************)
MaxRand == 2          \* distinct outcomes of crypto.randomBytes

(***************************************************************************)
(* JavaScript values                                                       *)
(***************************************************************************)
JNull == [t |-> "null", s |-> "", x |-> <<>>, keys |-> <<>>, kids |-> <<>>]

JUndef == [t |-> "undefined", s |-> "", x |-> <<>>, keys |-> <<>>, kids |-> <<>>]

JNaN == [t |-> "NaN", s |-> "", x |-> <<>>, keys |-> <<>>, kids |-> <<>>]

JTrue == [t |-> "true", s |-> "", x |-> <<>>, keys |-> <<>>, kids |-> <<>>]

JNum(n) == [t |-> "num", s |-> n, x |-> <<>>, keys |-> <<>>, kids |-> <<>>]

JStr(s) == [t |-> "str", s |-> s, x |-> <<>>, keys |-> <<>>, kids |-> <<>>]

\* a string of hex digits: buf.toString("hex")
JHex(buf) == [t |-> "str", s |-> "", x |-> <<buf>>, keys |-> <<>>, kids |-> <<>>]

JArr(kids) == [t |-> "arr", s |-> "", x |-> <<>>, keys |-> <<>>, kids |-> kids]

\* an object: its own enumerable string keys in insertion order
JObj(keys, kids) == [t |-> "obj", s |-> "", x |-> <<>>, keys |-> keys, kids |-> kids]

IsHex(v) == v.t = "str" /\ Len(v.x) = 1

HasKey(v, k) == v.t = "obj" /\ \E i \in 1..Len(v.keys) : v.keys[i] = k

\* v[k]: undefined when v is no object or has no such property
Get(v, k) ==
  IF HasKey(v, k)
  THEN v.kids[CHOOSE i \in 1..Len(v.keys) : v.keys[i] = k]
  ELSE JUndef

\* Object.keys(v)
Keys(v) == v.keys

\* the indices of a sequence that satisfy Keep, in order
RECURSIVE Filter(_, _)
Filter(seq, keep) ==
  IF seq = <<>> THEN <<>>
  ELSE IF Head(seq) \in keep
       THEN <<Head(seq)>> \o Filter(Tail(seq), keep)
       ELSE Filter(Tail(seq), keep)

Indices(n) == [i \in 1..n |-> i]

\* v[k] = val: replaces in place, or appends a new property last
SetKey(v, k, val) ==
  IF HasKey(v, k)
  THEN JObj(v.keys, [i \in 1..Len(v.kids) |-> IF v.keys[i] = k THEN val ELSE v.kids[i]])
  ELSE JObj(Append(v.keys, k), Append(v.kids, val))

\* delete v[k]
DeleteKey(v, k) ==
  LET keep == Filter(Indices(Len(v.keys)), {i \in 1..Len(v.keys) : v.keys[i] # k})
  IN JObj([j \in 1..Len(keep) |-> v.keys[keep[j]]], [j \in 1..Len(keep) |-> v.kids[keep[j]]])

Truthy(v) ==
  ~(v.t \in {"null", "undefined", "NaN", "false"}) /\ ~(v.t = "str" /\ v.s = "" /\ v.x = <<>>)
  /\ ~(v.t = "num" /\ v.s = "0")

\* no function has been called
FnIdle ==
  /\ fn = ""
  /\ arg = JNull
  /\ ret = JNull

\* request slots of chrome-mcp
Requests == {1, 2}

IdleRequest == [pc |-> "idle", tool |-> "", action |-> "", clear |-> FALSE,
                urlFilter |-> FALSE, res |-> "",
                before |-> <<>>, buf |-> <<>>, had |-> <<>>, out |-> <<>>]

\* chrome-mcp has received nothing
ChromeIdle ==
  /\ consoleLogs = <<>>
  /\ consoleListening = FALSE
  /\ networkRequests = <<>>
  /\ networkListening = FALSE
  /\ listeners = [tool \in {"chrome_console_logs", "chrome_network_monitor"} |-> 0]
  /\ client = "null"
  /\ req = [r \in Requests |-> IdleRequest]
  /\ nreqs = 0

RestIdle == FnIdle /\ ChromeIdle

(***************************************************************************)
(* JSON.stringify and JSON.parse                                           *)
(***************************************************************************)
\* what JSON.stringify keeps of a value: NaN becomes null, undefined array
\* elements become null, undefined-valued properties are dropped
RECURSIVE ToJSON(_)
ToJSON(v) ==
  CASE v.t = "NaN" -> JNull
    [] v.t = "arr" ->
         JArr([i \in 1..Len(v.kids) |->
                 IF v.kids[i].t = "undefined" THEN JNull ELSE ToJSON(v.kids[i])])
    [] v.t = "obj" ->
         LET keep == Filter(Indices(Len(v.keys)),
                            {i \in 1..Len(v.keys) : v.kids[i].t # "undefined"})
         IN JObj([j \in 1..Len(keep) |-> v.keys[keep[j]]],
                 [j \in 1..Len(keep) |-> ToJSON(v.kids[keep[j]])])
    [] OTHER -> v

\* a JavaScript string that is the JSON text of v
JsonText(v) == [k |-> "json", v |-> v]

\* a JavaScript string that is no JSON text
Garbage == [k |-> "garbage", v |-> JNull]

\* the value undefined where a string is expected
NoString == [k |-> "undefined", v |-> JNull]

\* JSON.stringify(v, null, 2): undefined for undefined
Stringify(v) == IF v.t = "undefined" THEN NoString ELSE JsonText(ToJSON(v))

Ok(v) == [ok |-> TRUE, err |-> "", v |-> v]

Err(e) == [ok |-> FALSE, err |-> e, v |-> JNull]

\* JSON.parse(text): throws SyntaxError on text that is no JSON
Parse(text) == IF text.k = "json" THEN Ok(text.v) ELSE Err("SyntaxError")

(***************************************************************************)
(* Encryption core                                                         *)
(***************************************************************************)
ALGORITHM == "aes-256-gcm"

Buf(kind, pw, n, body) == [kind |-> kind, pw |-> pw, n |-> n, body |-> body]

\* crypto.randomBytes: the n-th possible outcome
RandomBytes(n) == Buf("rand", "", n, <<>>)

deriveKey(password, salt) == Buf("key", password, 0, <<salt>>)

\* AES-256-GCM ciphertext of data under key and iv
GcmCipher(key, iv, data) == Buf("gcm", "", 0, <<key, iv, data>>)

\* the GCM authentication tag over the ciphertext
GcmTag(key, iv, ct) == Buf("tag", "", 0, <<key, iv, ct>>)

\* counter-mode decryption: the plaintext under the right key and iv, noise otherwise
GcmPlain(key, iv, ct) ==
  IF ct.kind = "gcm" /\ ct.body[1] = key /\ ct.body[2] = iv THEN ct.body[3] ELSE Garbage

encrypt(data, password, saltN, ivN) ==
  LET salt == RandomBytes(saltN)
      iv == RandomBytes(ivN)
      key == deriveKey(password, salt)
      ct == GcmCipher(key, iv, data)
  IN IF data.k = "undefined"
     THEN Err("TypeError")
     ELSE Ok(JObj(<<"encrypted", "salt", "iv", "authTag">>,
                  <<JHex(ct), JHex(salt), JHex(iv), JHex(GcmTag(key, iv, ct))>>))

\* decrypt without the check of the authentication tag
decryptNoAuth(encrypted, password, salt, iv, authTag) ==
  IF ~(IsHex(encrypted) /\ IsHex(salt) /\ IsHex(iv) /\ IsHex(authTag))
  THEN [ok |-> FALSE, err |-> "TypeError", s |-> NoString]
  ELSE LET key == deriveKey(password, salt.x[1])
       IN [ok |-> TRUE, err |-> "", s |-> GcmPlain(key, iv.x[1], encrypted.x[1])]

\* decipher.final() throws unless the tag authenticates the ciphertext
decrypt(encrypted, password, salt, iv, authTag) ==
  IF ~(IsHex(encrypted) /\ IsHex(salt) /\ IsHex(iv) /\ IsHex(authTag))
  THEN [ok |-> FALSE, err |-> "TypeError", s |-> NoString]
  ELSE LET key == deriveKey(password, salt.x[1])
       IN IF authTag.x[1] # GcmTag(key, iv.x[1], encrypted.x[1])
          THEN [ok |-> FALSE, err |-> "AuthError", s |-> NoString]
          ELSE [ok |-> TRUE, err |-> "", s |-> GcmPlain(key, iv.x[1], encrypted.x[1])]

\* encryptJSON writing a version tag that decryptJSON does not accept
encryptJSONVersion1(data, password, saltN, ivN) ==
  LET encrypted == encrypt(Stringify(data), password, saltN, ivN)
  IN IF ~encrypted.ok
     THEN [ok |-> FALSE, err |-> encrypted.err, s |-> NoString]
     ELSE [ok |-> TRUE, err |-> "",
           s |-> Stringify(JObj(<<"version", "algorithm">> \o Keys(encrypted.v),
                                <<JStr("1"), JStr(ALGORITHM)>> \o encrypted.v.kids))]

\* the envelope text, or the error thrown
encryptJSON(data, password, saltN, ivN) ==
  LET jsonString == Stringify(data)
      encrypted == encrypt(jsonString, password, saltN, ivN)
  IN IF ~encrypted.ok
     THEN [ok |-> FALSE, err |-> encrypted.err, s |-> NoString]
     ELSE [ok |-> TRUE, err |-> "",
           s |-> Stringify(JObj(<<"version", "algorithm">> \o Keys(encrypted.v),
                                <<JStr("1.0"), JStr(ALGORITHM)>> \o encrypted.v.kids))]

decryptJSON(encryptedData, password) ==
  LET parsed == Parse(encryptedData)
  IN IF ~parsed.ok THEN Err("SyntaxError")
     ELSE IF parsed.v.t = "null" THEN Err("TypeError")
     ELSE IF Get(parsed.v, "version") # JStr("1.0") THEN Err("UnsupportedVersion")
     ELSE IF Get(parsed.v, "algorithm") # JStr(ALGORITHM) THEN Err("UnsupportedAlgorithm")
     ELSE LET decrypted == decrypt(Get(parsed.v, "encrypted"), password,
                                   Get(parsed.v, "salt"), Get(parsed.v, "iv"),
                                   Get(parsed.v, "authTag"))
          IN IF ~decrypted.ok THEN Err(decrypted.err) ELSE Parse(decrypted.s)

(***************************************************************************)
(* The registry files                                                      *)
(***************************************************************************)
Procs == {1, 2}

MaxOps == 3           \* commands run one after the other in one behaviour

\* HOME/.mcp.json, its .encrypted, .backup and .decrypted siblings, and the
\* .mcp.json of a working directory that is not the home directory
MCP_CONFIG_PATH == "home"

ENCRYPTED_CONFIG_PATH == "enc"

BACKUP_PATH == "bak"

DecryptedPath == "dec"

Paths == {MCP_CONFIG_PATH, ENCRYPTED_CONFIG_PATH, BACKUP_PATH, DecryptedPath, "cwd"}

\* path.join(process.cwd(), ".mcp.json")
ManagerConfigPath == IF cwdIsHome THEN MCP_CONFIG_PATH ELSE "cwd"

Missing == [exists |-> FALSE, text |-> NoString]

File(text) == [exists |-> TRUE, text |-> text]

GoodKeyA == "0123456789abcdef"

GoodKeyB == "fedcba9876543210-long"

\* fifteen characters
ShortKey == "only-15-chars.."

ServerNames == {"fs", "git"}

\* mcp-install npm <server-name> <package-name> [path]
InstallRequests ==
  { <<"fs", "pkgA", "">>, <<"fs", "pkgB", "/data">>, <<"git", "pkgA", "/data">> }

Server(command, args) ==
  JObj(<<"command", "args", "env">>, <<JStr(command), JArr(args), JObj(<<>>, <<>>)>>)

Registry(names, servers) == JObj(<<"mcpServers">>, <<JObj(names, servers)>>)

PythonServer == Server("python", <<JStr("server.py")>>)

\* registries an operator may have written by hand
InitialRegistries ==
  { Registry(<<>>, <<>>),
    Registry(<<"fs">>, <<PythonServer>>),
    JObj(<<"theme", "mcpServers">>,
         <<JStr("dark"), JObj(<<"git", "fs">>, <<PythonServer, Server("node", <<JStr("i.js")>>)>>)>>),
    JObj(<<>>, <<>>) }

Envelope(v, password) == encryptJSON(v, password, 1, 1).s

\* envelopes found on disk: made by an earlier run, or changed since
InitialEnvelopes ==
  LET good == Parse(Envelope(Registry(<<"git">>, <<PythonServer>>), GoodKeyA)).v
      other == Parse(encryptJSON(Registry(<<>>, <<>>), GoodKeyA, 1, 2).s).v
  IN { Stringify(good),
       Stringify(SetKey(good, "version", JStr("2.0"))),
       Stringify(SetKey(good, "algorithm", JStr("aes-256-cbc"))),
       Stringify(SetKey(good, "encrypted", Get(other, "encrypted"))),
       Stringify(SetKey(good, "authTag", Get(other, "authTag"))),
       Stringify(DeleteKey(good, "salt")),
       Garbage }

Idle == [op |-> "none", pc |-> "idle", name |-> "", pkg |-> "", spath |-> "",
         pw |-> "",
         cfg |-> JNull, data |-> NoString, out |-> NoString,
         snap |-> [f \in Paths |-> Missing], pkgs |-> {},
         res |-> Err(""), rd |-> {}, wr |-> <<>>]

Begin(op, pc) == [Idle EXCEPT !.op = op, !.pc = pc]

Free(p) == proc[p].pc \in {"idle", "done"}

Finish(p, res) == [proc EXCEPT ![p].pc = "done", ![p].res = res]

\* the registry file and its envelope as a behaviour finds them
Scenarios ==
  LET plain == {File(Stringify(r)) : r \in InitialRegistries}
      one == File(Stringify(Registry(<<"fs">>, <<PythonServer>>)))
  IN ((plain \cup {Missing, File(Garbage), File(Envelope(JTrue, GoodKeyA))}) \X {Missing})
     \cup ({one} \X {File(e) : e \in InitialEnvelopes})
     \cup {<<Missing, File(Envelope(Registry(<<"git">>, <<PythonServer>>), GoodKeyA))>>}

RegInit ==
  /\ \E sc \in Scenarios :
        fs = [p \in Paths |->
                CASE p = MCP_CONFIG_PATH -> sc[1]
                  [] p = ENCRYPTED_CONFIG_PATH -> sc[2]
                  [] p = "cwd" -> File(Stringify(Registry(<<"git">>, <<PythonServer>>)))
                  [] OTHER -> Missing]
  /\ envKey \in {"", ShortKey, GoodKeyA, GoodKeyB}
  /\ cwdIsHome \in BOOLEAN
  /\ installed = {".venv"}
  /\ proc = [p \in Procs |-> Idle]
  /\ nops = 0
  /\ encSnap = Missing

\* the registry part at rest, for the specifications that do not use it
RegIdle ==
  /\ fs = [p \in Paths |-> Missing]
  /\ envKey = ""
  /\ cwdIsHome = TRUE
  /\ installed = {}
  /\ proc = [p \in Procs |-> Idle]
  /\ nops = 0
  /\ encSnap = Missing

(***************************************************************************)
(* getEncryptionPassword and isEncrypted                                   *)
(***************************************************************************)
\* a getEncryptionPassword that takes a key of any length
getEncryptionPasswordAnyLength ==
  IF envKey = "" THEN [ok |-> FALSE, err |-> "KeyNotSet", pw |-> ""]
  ELSE [ok |-> TRUE, err |-> "", pw |-> envKey]

\* the password, or the error thrown
getEncryptionPassword ==
  IF envKey = "" THEN [ok |-> FALSE, err |-> "KeyNotSet", pw |-> ""]
  ELSE IF Len(envKey) < 16 THEN [ok |-> FALSE, err |-> "KeyTooShort", pw |-> ""]
  ELSE [ok |-> TRUE, err |-> "", pw |-> envKey]

isEncrypted(file) ==
  LET parsed == Parse(file.text)
  IN /\ file.exists
     /\ parsed.ok
     /\ parsed.v.t # "null"
     /\ Truthy(Get(parsed.v, "version"))
     /\ Truthy(Get(parsed.v, "algorithm"))
     /\ Truthy(Get(parsed.v, "encrypted"))

(***************************************************************************)
(* Commands: every await of the code is one step                           *)
(***************************************************************************)
StartOp(p, rec) ==
  /\ Free(p)
  /\ nops < MaxOps
  /\ nops' = nops + 1
  /\ proc' = [proc EXCEPT ![p] = [rec EXCEPT !.snap = fs, !.pkgs = installed]]
  /\ UNCHANGED <<fs, envKey, cwdIsHome, installed, encSnap>>
  /\ UNCHANGED <<cryptoVars, updVars, restVars>>

At(p, op, pc) == proc[p].op = op /\ proc[p].pc = pc

\* a step that changes nothing but the process itself
Local(p, next) ==
  /\ proc' = [proc EXCEPT ![p] = next]
  /\ UNCHANGED <<fs, envKey, cwdIsHome, installed, nops, encSnap>>
  /\ UNCHANGED <<cryptoVars, updVars, restVars>>

Failed(p, e) == [proc[p] EXCEPT !.pc = "done", !.res = Err(e)]

CopyFile(f, src, dst) == [f EXCEPT ![dst] = f[src]]

WriteFile(f, path, text) == [f EXCEPT ![path] = File(text)]

(* ---- encryptMCPConfig ------------------------------------------------- *)
EncryptStart(p) == StartOp(p, Begin("encrypt", "access"))

EncryptAccess(p) ==
  /\ At(p, "encrypt", "access")
  /\ Local(p, IF fs[MCP_CONFIG_PATH].exists
              THEN [proc[p] EXCEPT !.pc = "isEncrypted"]
              ELSE Failed(p, "NotFound"))

\* isEncrypted(MCP_CONFIG_PATH), then getEncryptionPassword()
EncryptCheck(p) ==
  /\ At(p, "encrypt", "isEncrypted")
  /\ LET pw == getEncryptionPassword
         me == [proc[p] EXCEPT !.rd = @ \cup {MCP_CONFIG_PATH}]
     IN Local(p, IF isEncrypted(fs[MCP_CONFIG_PATH])
                 THEN [me EXCEPT !.pc = "done", !.res = Ok(JUndef)]
                 ELSE IF ~pw.ok
                      THEN [me EXCEPT !.pc = "done", !.res = Err(pw.err)]
                      ELSE [me EXCEPT !.pc = "backup", !.pw = pw.pw])

\* an encrypt verb that goes on to encryptFile without the backup copy
EncryptBackupSkipped(p) ==
  /\ At(p, "encrypt", "backup")
  /\ Local(p, [proc[p] EXCEPT !.pc = "encryptFile"])

\* fs.copyFile(MCP_CONFIG_PATH, BACKUP_PATH)
EncryptBackup(p) ==
  /\ At(p, "encrypt", "backup")
  /\ IF fs[MCP_CONFIG_PATH].exists
     THEN /\ fs' = CopyFile(fs, MCP_CONFIG_PATH, BACKUP_PATH)
          /\ proc' = [proc EXCEPT ![p].pc = "encryptFile",
                                  ![p].rd = @ \cup {MCP_CONFIG_PATH},
                                  ![p].wr = Append(@, BACKUP_PATH)]
     ELSE /\ fs' = fs
          /\ proc' = [proc EXCEPT ![p] = Failed(p, "NotFound")]
  /\ UNCHANGED <<envKey, cwdIsHome, installed, nops, encSnap, cryptoVars, updVars, restVars>>

\* encryptFile: readFile, then encryptJSON(JSON.parse(data), password)
EncryptRead(p) ==
  /\ At(p, "encrypt", "encryptFile")
  /\ LET file == fs[MCP_CONFIG_PATH]
         parsed == Parse(file.text)
         me == [proc[p] EXCEPT !.rd = @ \cup {MCP_CONFIG_PATH}]
     IN IF ~file.exists THEN Local(p, Failed(p, "NotFound"))
        ELSE IF ~parsed.ok THEN Local(p, [me EXCEPT !.pc = "done", !.res = Err(parsed.err)])
        ELSE \E saltN \in 1..MaxRand, ivN \in 1..MaxRand :
               LET encrypted == encryptJSON(parsed.v, proc[p].pw, saltN, ivN)
               IN Local(p, IF ~encrypted.ok
                           THEN [me EXCEPT !.pc = "done", !.res = Err(encrypted.err)]
                           ELSE [me EXCEPT !.pc = "writeFile", !.data = file.text,
                                           !.out = encrypted.s])

EncryptWrite(p) ==
  /\ At(p, "encrypt", "writeFile")
  /\ fs' = WriteFile(fs, ENCRYPTED_CONFIG_PATH, proc[p].out)
  /\ proc' = [proc EXCEPT ![p].pc = "done", ![p].res = Ok(JUndef),
                          ![p].wr = Append(@, ENCRYPTED_CONFIG_PATH)]
  /\ encSnap' = proc[p].snap[MCP_CONFIG_PATH]
  /\ UNCHANGED <<envKey, cwdIsHome, installed, nops, cryptoVars, updVars, restVars>>

(* ---- decryptMCPConfig ------------------------------------------------- *)
DecryptStart(p) == StartOp(p, Begin("decrypt", "access"))

\* fs.access(ENCRYPTED_CONFIG_PATH), then getEncryptionPassword()
DecryptAccess(p) ==
  /\ At(p, "decrypt", "access")
  /\ LET pw == getEncryptionPassword
     IN Local(p, IF ~fs[ENCRYPTED_CONFIG_PATH].exists THEN Failed(p, "NotFound")
                 ELSE IF ~pw.ok THEN Failed(p, pw.err)
                 ELSE [proc[p] EXCEPT !.pc = "decryptFile", !.pw = pw.pw])

\* decryptFile: readFile, then decryptJSON(encryptedData, password)
DecryptRead(p) ==
  /\ At(p, "decrypt", "decryptFile")
  /\ LET file == fs[ENCRYPTED_CONFIG_PATH]
         decrypted == decryptJSON(file.text, proc[p].pw)
         me == [proc[p] EXCEPT !.rd = @ \cup {ENCRYPTED_CONFIG_PATH}]
     IN Local(p, IF ~file.exists THEN Failed(p, "NotFound")
                 ELSE IF ~decrypted.ok
                      THEN [me EXCEPT !.pc = "done", !.res = Err(decrypted.err)]
                      ELSE [me EXCEPT !.pc = "writeFile", !.data = file.text,
                                      !.out = Stringify(decrypted.v)])

\* the decrypt verb writing over the registry itself
DecryptOverCanonical == MCP_CONFIG_PATH

\* MCP_CONFIG_PATH + ".decrypted"
DecryptOutputPath == DecryptedPath

DecryptWrite(p) ==
  /\ At(p, "decrypt", "writeFile")
  /\ fs' = WriteFile(fs, DecryptOutputPath, proc[p].out)
  /\ proc' = [proc EXCEPT ![p].pc = "done", ![p].res = Ok(JUndef),
                          ![p].wr = Append(@, DecryptOutputPath)]
  /\ UNCHANGED <<envKey, cwdIsHome, installed, nops, encSnap, cryptoVars, updVars, restVars>>

(* ---- restoreMCPConfigBackup ------------------------------------------- *)
RestoreStart(p) == StartOp(p, Begin("restore", "access"))

RestoreAccess(p) ==
  /\ At(p, "restore", "access")
  /\ Local(p, IF fs[BACKUP_PATH].exists
              THEN [proc[p] EXCEPT !.pc = "copyFile"]
              ELSE Failed(p, "NotFound"))

RestoreCopy(p) ==
  /\ At(p, "restore", "copyFile")
  /\ IF fs[BACKUP_PATH].exists
     THEN /\ fs' = CopyFile(fs, BACKUP_PATH, MCP_CONFIG_PATH)
          /\ proc' = [proc EXCEPT ![p].pc = "done", ![p].res = Ok(JUndef),
                                  ![p].rd = @ \cup {BACKUP_PATH},
                                  ![p].wr = Append(@, MCP_CONFIG_PATH)]
     ELSE /\ fs' = fs
          /\ proc' = [proc EXCEPT ![p] = Failed(p, "NotFound")]
  /\ UNCHANGED <<envKey, cwdIsHome, installed, nops, encSnap, cryptoVars, updVars, restVars>>

(* ---- the loader: loadMCPConfig, listMCPServers ------------------------ *)
\* Object.keys(config.mcpServers)
ServerNamesOf(config) ==
  LET servers == Get(config, "mcpServers")
  IN IF config.t = "null" \/ servers.t \in {"undefined", "null"}
     THEN Err("TypeError")
     ELSE Ok(JArr([i \in 1..Len(Keys(servers)) |-> JStr(Keys(servers)[i])]))

\* what the loader's caller gets from the loaded config
Loaded(op, config) == IF op = "list" THEN ServerNamesOf(config) ELSE Ok(config)

LoadStart(p) == \E op \in {"load", "list"} : StartOp(p, Begin(op, "access"))

\* loadEncryptedMCPConfig: fs.access(ENCRYPTED_CONFIG_PATH)
LoadAccess(p) ==
  /\ proc[p].op \in {"load", "list"}
  /\ proc[p].pc = "access"
  /\ LET pw == getEncryptionPassword
     IN Local(p, IF ~fs[ENCRYPTED_CONFIG_PATH].exists
                 THEN [proc[p] EXCEPT !.pc = "readPlain"]
                 ELSE IF ~pw.ok THEN Failed(p, pw.err)
                 ELSE [proc[p] EXCEPT !.pc = "readEncrypted", !.pw = pw.pw])

\* the fallback: JSON.parse(readFile(MCP_CONFIG_PATH))
LoadPlain(p) ==
  /\ proc[p].op \in {"load", "list"}
  /\ proc[p].pc = "readPlain"
  /\ LET file == fs[MCP_CONFIG_PATH]
         parsed == Parse(file.text)
         me == [proc[p] EXCEPT !.rd = @ \cup {MCP_CONFIG_PATH}, !.pc = "done"]
     IN Local(p, IF ~file.exists THEN Failed(p, "NotFound")
                 ELSE IF ~parsed.ok THEN [me EXCEPT !.res = Err(parsed.err)]
                 ELSE [me EXCEPT !.res = Loaded(proc[p].op, parsed.v)])

\* a loader that reads the plaintext registry when the envelope does not decrypt
LoadEncryptedFallback(p) ==
  /\ proc[p].op \in {"load", "list"}
  /\ proc[p].pc = "readEncrypted"
  /\ LET file == fs[ENCRYPTED_CONFIG_PATH]
         decrypted == decryptJSON(file.text, proc[p].pw)
         plain == Parse(fs[MCP_CONFIG_PATH].text)
         me == [proc[p] EXCEPT !.rd = @ \cup {ENCRYPTED_CONFIG_PATH}, !.pc = "done"]
     IN Local(p, IF ~file.exists THEN Failed(p, "NotFound")
                 ELSE IF ~decrypted.ok
                      THEN IF plain.ok
                           THEN [me EXCEPT !.res = Loaded(proc[p].op, plain.v)]
                           ELSE [me EXCEPT !.res = Err(decrypted.err)]
                 ELSE [me EXCEPT !.res = Loaded(proc[p].op, decrypted.v)])

\* decryptJSON(readFile(ENCRYPTED_CONFIG_PATH), password)
LoadEncrypted(p) ==
  /\ proc[p].op \in {"load", "list"}
  /\ proc[p].pc = "readEncrypted"
  /\ LET file == fs[ENCRYPTED_CONFIG_PATH]
         decrypted == decryptJSON(file.text, proc[p].pw)
         me == [proc[p] EXCEPT !.rd = @ \cup {ENCRYPTED_CONFIG_PATH}, !.pc = "done"]
     IN Local(p, IF ~file.exists THEN Failed(p, "NotFound")
                 ELSE IF ~decrypted.ok THEN [me EXCEPT !.res = Err(decrypted.err)]
                 ELSE [me EXCEPT !.res = Loaded(proc[p].op, decrypted.v)])

(* ---- the server manager: installNpmMCPServer, removeMCPServer ---------- *)
\* newServer without the optional path argument
NewNpmServerNoPath(packageName, serverPath) ==
  Server("npx", <<JStr("-y"), JStr(packageName)>>)

\* newServer of installNpmMCPServer
NewNpmServer(packageName, serverPath) ==
  Server("npx", <<JStr("-y"), JStr(packageName)>>
                \o (IF serverPath # "" THEN <<JStr(serverPath)>> ELSE <<>>))

\* config.mcpServers[serverName] = newServer
WithServer(config, serverName, newServer) ==
  SetKey(config, "mcpServers", SetKey(Get(config, "mcpServers"), serverName, newServer))

\* a remove that empties the whole registry
WithoutAllServers(config, serverName) == SetKey(config, "mcpServers", JObj(<<>>, <<>>))

\* delete config.mcpServers[serverName]
WithoutServer(config, serverName) ==
  SetKey(config, "mcpServers", DeleteKey(Get(config, "mcpServers"), serverName))

\* the registry the command goes on to save, or the error thrown before the save
Changed(op, config, serverName, packageName, serverPath) ==
  LET servers == Get(config, "mcpServers")
  IN IF config.t = "null" \/ servers.t # "obj" THEN Err("TypeError")
     ELSE IF op = "install"
          THEN Ok(WithServer(config, serverName, NewNpmServer(packageName, serverPath)))
          ELSE IF ~Truthy(Get(servers, serverName)) THEN Err("ServerNotFound")
          ELSE Ok(WithoutServer(config, serverName))

InstallStart(p) ==
  \E request \in InstallRequests :
     StartOp(p, [Begin("install", "npmInstall") EXCEPT
                   !.pkg = request[2], !.name = request[1], !.spath = request[3]])

\* execAsync(`npm install ${packageName}`): it fails, or the package is installed
InstallExec(p) ==
  /\ At(p, "install", "npmInstall")
  /\ \E ok \in BOOLEAN :
       IF ok
       THEN /\ installed' = installed \cup {proc[p].pkg}
            /\ proc' = [proc EXCEPT ![p].pc = "loadMCPConfig"]
       ELSE /\ installed' = installed
            /\ proc' = [proc EXCEPT ![p] = Failed(p, "InstallFailed")]
  /\ UNCHANGED <<fs, envKey, cwdIsHome, nops, encSnap, cryptoVars, updVars, restVars>>

RemoveStart(p) ==
  \E serverName \in ServerNames :
     StartOp(p, [Begin("remove", "loadMCPConfig") EXCEPT !.name = serverName])

\* loadMCPConfig() of the manager, then the change made to the loaded object
ManagerLoad(p) ==
  /\ proc[p].op \in {"install", "remove"}
  /\ proc[p].pc = "loadMCPConfig"
  /\ LET file == fs[ManagerConfigPath]
         parsed == Parse(file.text)
         changed == Changed(proc[p].op, parsed.v, proc[p].name, proc[p].pkg, proc[p].spath)
         me == [proc[p] EXCEPT !.rd = @ \cup {ManagerConfigPath}]
     IN Local(p, IF ~file.exists THEN Failed(p, "NotFound")
                 ELSE IF ~parsed.ok THEN [me EXCEPT !.pc = "done", !.res = Err(parsed.err)]
                 ELSE IF ~changed.ok
                      THEN [me EXCEPT !.pc = "done", !.res = Err(changed.err), !.cfg = parsed.v]
                      ELSE [me EXCEPT !.pc = "saveMCPConfig", !.cfg = parsed.v,
                                      !.data = file.text, !.out = Stringify(changed.v)])

\* a save that applies the change to the registry as it is on disk at the save
ManagerSaveMerged(p) ==
  /\ proc[p].op \in {"install", "remove"}
  /\ proc[p].pc = "saveMCPConfig"
  /\ LET onDisk == Parse(fs[ManagerConfigPath].text)
         changed == Changed(proc[p].op, onDisk.v, proc[p].name, proc[p].pkg, proc[p].spath)
     IN fs' = WriteFile(fs, ManagerConfigPath,
                        IF onDisk.ok /\ changed.ok THEN Stringify(changed.v) ELSE proc[p].out)
  /\ proc' = [proc EXCEPT ![p].pc = "done", ![p].res = Ok(JUndef),
                          ![p].wr = Append(@, ManagerConfigPath)]
  /\ UNCHANGED <<envKey, cwdIsHome, installed, nops, encSnap, cryptoVars, updVars, restVars>>

\* saveMCPConfig(config)
ManagerSave(p) ==
  /\ proc[p].op \in {"install", "remove"}
  /\ proc[p].pc = "saveMCPConfig"
  /\ fs' = WriteFile(fs, ManagerConfigPath, proc[p].out)
  /\ proc' = [proc EXCEPT ![p].pc = "done", ![p].res = Ok(JUndef),
                          ![p].wr = Append(@, ManagerConfigPath)]
  /\ UNCHANGED <<envKey, cwdIsHome, installed, nops, encSnap, cryptoVars, updVars, restVars>>

\* the encryption core at rest
CryptoIdle ==
  /\ cpc = "in"
  /\ cval = JNull
  /\ cpw = ""
  /\ cpw2 = ""
  /\ cenv = [ok |-> FALSE, err |-> "", s |-> NoString]
  /\ cres = Err("")
  /\ cresOther = Err("")

(***************************************************************************)
(* The auto-update subsystem                                               *)
(***************************************************************************)
MaxTicks == 4         \* half hours the clock may advance in one behaviour

MaxCalls == 2         \* runAutoUpdate calls in one behaviour

MaxConfigs == 1       \* configureUpdate calls in one behaviour

\* config.checkInterval * 60 * 60 * 1000
MsPerHour == 60 * 60 * 1000

TickMs == 30 * 60 * 1000

DEFAULT_CONFIG == [enabled |-> TRUE, checkInterval |-> 24, autoInstall |-> FALSE, notifyOnly |-> TRUE]

\* .auto-update.json: not there, or the configuration saveConfig wrote
NoConfigFile == [exists |-> FALSE, config |-> DEFAULT_CONFIG]

ConfigFile(config) == [exists |-> TRUE, config |-> config]

\* .last-update-check: not there, a time stamp, or text parseInt makes NaN of
NoLastCheck == [exists |-> FALSE, nan |-> FALSE, ms |-> 0]

LastCheckAt(ms) == [exists |-> TRUE, nan |-> FALSE, ms |-> ms]

LastCheckNaN == [exists |-> TRUE, nan |-> TRUE, ms |-> 0]

\* { ...DEFAULT_CONFIG, ...JSON.parse(content) }, DEFAULT_CONFIG without the file
loadConfig == IF ucfg.exists THEN ucfg.config ELSE DEFAULT_CONFIG

\* current.split(".").map(Number)[i] || 0
Part(version, i) == IF i <= Len(version) THEN version[i] ELSE 0

compareVersions(current, latest) ==
  \/ Part(latest, 1) > Part(current, 1)
  \/ Part(latest, 1) = Part(current, 1) /\ Part(latest, 2) > Part(current, 2)
  \/ /\ Part(latest, 1) = Part(current, 1) /\ Part(latest, 2) = Part(current, 2)
     /\ Part(latest, 3) > Part(current, 3)

\* a throttle that compares in the other direction
shouldCheckForUpdatesInverted ==
  LET config == loadConfig
  IN IF ~config.enabled THEN FALSE
     ELSE IF ~ulast.exists THEN TRUE
     ELSE IF ulast.nan THEN FALSE
     ELSE now - ulast.ms <= config.checkInterval * MsPerHour

\* NaN >= intervalMs is false; a missing file throws into the catch, which returns true
shouldCheckForUpdates ==
  LET config == loadConfig
  IN IF ~config.enabled THEN FALSE
     ELSE IF ~ulast.exists THEN TRUE
     ELSE IF ulast.nan THEN FALSE
     ELSE now - ulast.ms >= config.checkInterval * MsPerHour

\* an install condition that ignores notifyOnly
ShouldInstallAny(config) == config.autoInstall

\* config.autoInstall && !config.notifyOnly
ShouldInstall(config) == config.autoInstall /\ ~config.notifyOnly

CurrentVersion == <<1, 2, 0>>

\* versions the registry may report as latest
PublishedVersions == {<<1, 2>>, <<1, 2, 1>>, <<1, 1, 9>>, <<2>>}

\* (found: the .last-update-check file as the call finds it)
NoCall == [t |-> 0, ran |-> FALSE, config |-> DEFAULT_CONFIG, found |-> NoLastCheck,
           lookup |-> FALSE,
           checked |-> FALSE, recorded |-> FALSE, update |-> FALSE, install |-> FALSE,
           msg |-> "", threw |-> FALSE]

\* a runAutoUpdate without the try/catch around its body
Uncaught(call) == call

\* catch (error) { console.error("Auto-update check failed:", error) }
Caught(call) == [call EXCEPT !.threw = FALSE, !.msg = "Auto-update check failed:"]

\* an await inside the try throws
Throws(call) == [call EXCEPT !.threw = TRUE]

Call(config) == [NoCall EXCEPT !.t = now, !.ran = TRUE, !.config = config, !.found = ulast]

UpdInit ==
  /\ ucfg \in {NoConfigFile,
               ConfigFile([DEFAULT_CONFIG EXCEPT !.checkInterval = 1, !.autoInstall = TRUE])}
  /\ ulast \in {NoLastCheck, LastCheckNaN, LastCheckAt(0)}
  /\ now = TickMs
  /\ prev = NoCall
  /\ last = NoCall
  /\ ncalls = 0
  /\ nconfigs = 0

UpdIdle ==
  /\ ucfg = NoConfigFile
  /\ ulast = NoLastCheck
  /\ now = 0
  /\ prev = NoCall
  /\ last = NoCall
  /\ ncalls = 0
  /\ nconfigs = 0

\* time passes between two commands
Tick ==
  /\ now < MaxTicks * TickMs
  /\ now' = now + TickMs
  /\ UNCHANGED <<ucfg, ulast, prev, last, ncalls, nconfigs, cryptoVars, regVars, restVars>>

\* runAutoUpdate: one call from its first line to its return
Ran(call) ==
  /\ prev' = last
  /\ last' = call
  /\ ncalls' = ncalls + 1
  /\ UNCHANGED <<ucfg, now, nconfigs, cryptoVars, regVars, restVars>>

RunDisabled ==
  /\ ncalls < MaxCalls
  /\ ~loadConfig.enabled
  /\ Ran([Call(loadConfig) EXCEPT !.msg = "Auto-update is disabled."])
  /\ UNCHANGED ulast

RunSkipped ==
  /\ ncalls < MaxCalls
  /\ loadConfig.enabled
  /\ ~shouldCheckForUpdates
  /\ Ran([Call(loadConfig) EXCEPT !.msg = "Update check skipped (checked recently)."])
  /\ UNCHANGED ulast

\* checkForUpdates throws: package.json unreadable (no lookup), or npm view fails
RunCheckFailed ==
  /\ ncalls < MaxCalls
  /\ loadConfig.enabled
  /\ shouldCheckForUpdates
  /\ \E lookup \in BOOLEAN :
       Ran(Caught(Throws([Call(loadConfig) EXCEPT !.lookup = lookup])))
  /\ UNCHANGED ulast

\* checkForUpdates returns, updateLastCheckTime (a failed write is only logged),
\* then the report or the install
RunChecked ==
  /\ ncalls < MaxCalls
  /\ loadConfig.enabled
  /\ shouldCheckForUpdates
  /\ \E latest \in PublishedVersions, written \in BOOLEAN, installOk \in BOOLEAN :
       LET config == loadConfig
           update == compareVersions(CurrentVersion, latest)
           call == [Call(config) EXCEPT !.lookup = TRUE, !.checked = TRUE,
                                        !.recorded = written, !.update = update]
       IN /\ ulast' = IF written THEN LastCheckAt(now) ELSE ulast
          /\ Ran(IF ~update THEN [call EXCEPT !.msg = "You are using the latest version"]
              ELSE IF ShouldInstall(config)
                   THEN IF installOk
                        THEN [call EXCEPT !.install = TRUE,
                                          !.msg = "Update completed successfully!"]
                        ELSE Caught(Throws([call EXCEPT !.install = TRUE]))
                   ELSE [call EXCEPT !.msg = "To update, run: npm install <package-name>@latest"])

\* configureUpdate(options): handleConfig, enable, disable
Configure(config) ==
  /\ nconfigs < MaxConfigs
  /\ nconfigs' = nconfigs + 1
  /\ ucfg' = ConfigFile(config)
  /\ UNCHANGED <<ulast, now, prev, last, ncalls, cryptoVars, regVars, restVars>>

ConfigureEnabled == \E b \in BOOLEAN : Configure([loadConfig EXCEPT !.enabled = b])

ConfigureAutoInstall == \E b \in BOOLEAN : Configure([loadConfig EXCEPT !.autoInstall = b])

ConfigureNotifyOnly == \E b \in BOOLEAN : Configure([loadConfig EXCEPT !.notifyOnly = b])

\* what the command line may give as <hours>
CheckIntervalArguments == {"-1", "0", "1", "2", "2h", "abc"}

\* parseInt(value, 10): the leading integer of the text, NaN without one
parseInt(value) ==
  CASE value = "-1" -> [nan |-> FALSE, n |-> -1]
    [] value = "0" -> [nan |-> FALSE, n |-> 0]
    [] value = "1" -> [nan |-> FALSE, n |-> 1]
    [] value \in {"2", "2h"} -> [nan |-> FALSE, n |-> 2]
    [] OTHER -> [nan |-> TRUE, n |-> 0]

\* config checkInterval <hours>: refused only when parseInt gives NaN
ConfigureCheckInterval ==
  \E value \in CheckIntervalArguments :
     /\ ~parseInt(value).nan
     /\ Configure([loadConfig EXCEPT !.checkInterval = parseInt(value).n])

UpdNext ==
  \/ Tick
  \/ RunDisabled \/ RunSkipped \/ RunCheckFailed \/ RunChecked
  \/ ConfigureEnabled \/ ConfigureAutoInstall \/ ConfigureNotifyOnly \/ ConfigureCheckInterval

\* only the auto-update subsystem moves
UpdOnlyInit == UpdInit /\ CryptoIdle /\ RegIdle /\ RestIdle

SpecUpd == UpdOnlyInit /\ [][UpdNext]_vars

(***************************************************************************)
(* Specifications of the registry commands                                 *)
(***************************************************************************)
Init == RegInit /\ CryptoIdle /\ UpdIdle /\ RestIdle

\* the commands run one after the other
Next ==
  \E p \in {1} :
    \/ EncryptStart(p) \/ EncryptAccess(p) \/ EncryptCheck(p) \/ EncryptBackup(p)
    \/ EncryptRead(p) \/ EncryptWrite(p)
    \/ DecryptStart(p) \/ DecryptAccess(p) \/ DecryptRead(p) \/ DecryptWrite(p)
    \/ RestoreStart(p) \/ RestoreAccess(p) \/ RestoreCopy(p)
    \/ LoadStart(p) \/ LoadAccess(p) \/ LoadPlain(p) \/ LoadEncrypted(p)
    \/ InstallStart(p) \/ InstallExec(p) \/ RemoveStart(p)
    \/ ManagerLoad(p) \/ ManagerSave(p)

Spec == Init /\ [][Next]_vars

ConcInit ==
  /\ RegInit
  /\ CryptoIdle
  /\ UpdIdle
  /\ RestIdle
  /\ fs[ENCRYPTED_CONFIG_PATH] = Missing
  /\ fs[MCP_CONFIG_PATH] = File(Stringify(Registry(<<"fs">>, <<PythonServer>>)))
  /\ envKey = ""
  /\ cwdIsHome

\* manager commands of two processes, interleaved at every await
ConcNext ==
  \E p \in Procs :
    \/ InstallStart(p) \/ InstallExec(p) \/ RemoveStart(p)
    \/ ManagerLoad(p) \/ ManagerSave(p)

SpecConc == ConcInit /\ [][ConcNext]_vars

\* the manager changes the registry and the loader reads it, each in its own
\* process
\* process: manager commands first, one after the other, then loader calls
SharedNext ==
  \/ /\ proc[2].pc = "idle"
     /\ \/ InstallStart(1) \/ InstallExec(1) \/ RemoveStart(1)
        \/ ManagerLoad(1) \/ ManagerSave(1)
  \/ /\ proc[1].pc = "done"
     /\ \/ LoadStart(2) \/ LoadAccess(2) \/ LoadPlain(2) \/ LoadEncrypted(2)

SpecShared == Init /\ [][SharedNext]_vars

(***************************************************************************)
(* The encryption core as a pure function: encryptJSON, then decryptJSON   *)
(***************************************************************************)
Scalars == {JNull, JTrue, JNum("1"), JStr("npx"), JStr(""), JUndef, JNaN}

Flat == Scalars
        \cup {JArr(<<a>>) : a \in Scalars}
        \cup {JArr(<<a, b>>) : a \in {JNull, JUndef}, b \in {JStr("npx"), JNaN}}
        \cup {JObj(<<"a">>, <<a>>) : a \in Scalars}
        \cup {JObj(<<"a", "b">>, <<a, b>>) : a \in {JUndef, JNum("1")}, b \in {JStr("npx"), JNaN}}
        \cup {JObj(<<"b", "a">>, <<a, b>>) : a \in {JNum("1")}, b \in {JStr("npx")}}

CryptoValues == Flat \cup {JObj(<<"mcpServers">>, <<v>>) : v \in Flat} \cup {JArr(<<v, JTrue>>) : v \in Flat}

RECURSIVE IsJsonValue(_)
\* a value JSON can express: no undefined, no NaN anywhere in it
IsJsonValue(v) ==
  /\ v.t \notin {"undefined", "NaN"}
  /\ \A i \in 1..Len(v.kids) : IsJsonValue(v.kids[i])

CryptoInit ==
  /\ cpc = "in"
  /\ cval \in CryptoValues
  /\ cpw \in {GoodKeyA, GoodKeyB, ShortKey}
  /\ cpw2 \in {GoodKeyA, GoodKeyB}
  /\ cenv = [ok |-> FALSE, err |-> "", s |-> NoString]
  /\ cres = Err("")
  /\ cresOther = Err("")

CryptoEncrypt ==
  /\ cpc = "in"
  /\ \E saltN \in 1..MaxRand, ivN \in 1..MaxRand :
        cenv' = encryptJSON(cval, cpw, saltN, ivN)
  /\ cpc' = "encrypted"
  /\ UNCHANGED <<cval, cpw, cpw2, cres, cresOther>>

CryptoDecrypt ==
  /\ cpc = "encrypted"
  /\ cenv.ok
  /\ cres' = decryptJSON(cenv.s, cpw)
  /\ cresOther' = decryptJSON(cenv.s, cpw2)
  /\ cpc' = "decrypted"
  /\ UNCHANGED <<cval, cpw, cpw2, cenv>>

CryptoNext == (CryptoEncrypt \/ CryptoDecrypt) /\ UNCHANGED <<regVars, updVars, restVars>>

\* only the encryption core moves
CryptoOnlyInit == CryptoInit /\ RegIdle /\ UpdIdle /\ RestIdle

SpecCrypto == CryptoOnlyInit /\ [][CryptoNext]_vars

(***************************************************************************)
(* The call-tool handlers of the MCP tool servers                          *)
(***************************************************************************)
\* everything at rest but the function under test
CoreIdle == CryptoIdle /\ RegIdle /\ UpdIdle

Nullish(v) == v.t \in {"null", "undefined"}

\* typeof v === "number"
IsNumber(v) == v.t \in {"num", "NaN"}

IsString(v) == v.t = "str"

\* { content: [{ type: "text", text }] }, with isError where the server sets it
Text(text) == [kind |-> "text", isError |-> FALSE, text |-> text]

ErrorText(text) == [kind |-> "text", isError |-> TRUE, text |-> text]

\* the handler's promise rejects
Thrown(error) == [kind |-> "throw", isError |-> FALSE, text |-> error]

NoResult == [kind |-> "", isError |-> FALSE, text |-> ""]

\* mcp-hello-js: args.name, args.a read without a check; default throws
HelloCallTool(name, args) ==
  CASE name = "greet" -> IF Nullish(args) THEN Thrown("TypeError") ELSE Text("Hello")
    [] name = "add" -> IF Nullish(args) THEN Thrown("TypeError") ELSE Text("sum")
    [] OTHER -> Thrown("Unknown tool")

money_calculator(args) ==
  LET operation == Get(args, "operation")
      amount2 == Get(args, "amount2")
      rate == Get(args, "rate")
      needsAmount2 == {"add", "subtract", "multiply", "divide"}
      needsRate == {"tax", "discount", "exchange"}
  IN IF Nullish(args) THEN Thrown("TypeError")
     ELSE IF IsString(operation) /\ operation.s \in needsAmount2 /\ ~IsNumber(amount2)
     THEN Text("error: amount2 required")
     ELSE IF IsString(operation) /\ operation.s \in needsRate /\ ~IsNumber(rate)
     THEN Text("error: rate required")
     ELSE IF operation = JStr("divide") /\ amount2 = JNum("0")
     THEN Text("error: division by zero")
     ELSE IF IsString(operation) /\ operation.s \in needsAmount2 \cup needsRate
     THEN Text("result")
     ELSE Text("error: bad operation")

currency_formatter(args) ==
  LET amount == Get(args, "amount")
      currency == Get(args, "currency")
  IN IF Nullish(args) THEN Thrown("TypeError")
     ELSE IF ~IsNumber(amount) THEN Text("error: amount required")
     \* (currency || "").toUpperCase()
     ELSE IF Truthy(currency) /\ ~IsString(currency) THEN Thrown("TypeError")
     ELSE IF Truthy(currency) /\ currency.s \in {"krw", "KRW", "usd", "USD", "jpy", "JPY", "eur", "EUR"}
     THEN Text("result")
     ELSE Text("error: unsupported currency")

kisec_exam_schedule(args) ==
  LET type == Get(args, "type")
  IN IF Nullish(args) THEN Thrown("TypeError")
     \* (args.type || "...").trim()
     ELSE IF Truthy(type) /\ ~IsString(type) THEN Thrown("TypeError")
     ELSE Text("schedule")

\* the tools of money-mcp that only destructure args and validate its fields
MoneyOtherTools == {"dutch_pay", "savings_calculator", "vat_calculator"}

\* money-mcp: a chain of if (name === ...) with no try around it
MoneyCallTool(name, args) ==
  CASE name = "money_calculator" -> money_calculator(args)
    [] name = "currency_formatter" -> currency_formatter(args)
    [] name = "kisec_exam_schedule" -> kisec_exam_schedule(args)
    [] name \in MoneyOtherTools -> IF Nullish(args) THEN Thrown("TypeError") ELSE Text("result")
    [] OTHER -> Text("error: unknown tool")

\* what handleTool does with the Chrome connection: it returns, or it throws
ChromeOutcomes == {"returns", "ECONNREFUSED", "TypeError"}

ChromeTools == {"chrome_connect", "chrome_navigate", "chrome_console_logs", "chrome_network_monitor"}

\* chrome-mcp: handleTool(name, args || {}) inside try/catch
ChromeCallTool(name, args, outcome) ==
  IF name \notin ChromeTools THEN Text("unknown tool")
  ELSE IF outcome = "returns" THEN Text("result")
  ELSE IF outcome = "ECONNREFUSED" THEN ErrorText("Chrome connection failed")
  ELSE ErrorText("error")

CallTool(server, name, args, outcome) ==
  CASE server = "mcp-hello-js" -> HelloCallTool(name, args)
    [] server = "money-mcp" -> MoneyCallTool(name, args)
    [] server = "chrome-mcp" -> ChromeCallTool(name, args, outcome)

ToolServers == {"mcp-hello-js", "money-mcp", "chrome-mcp"}

ToolNames ==
  {"greet", "add", "money_calculator", "currency_formatter", "kisec_exam_schedule",
   "dutch_pay", "chrome_connect", "chrome_console_logs", "no_such_tool"}

\* request.params.arguments: missing, null, or an object with some fields
ToolArguments ==
  {JUndef, JNull, JObj(<<>>, <<>>),
   JObj(<<"name">>, <<JStr("Kim")>>),
   JObj(<<"a", "b">>, <<JNum("1"), JStr("npx")>>),
   JObj(<<"operation", "amount1", "amount2">>, <<JStr("add"), JNum("1"), JNum("0")>>),
   JObj(<<"operation", "amount1", "amount2">>, <<JStr("divide"), JNum("1"), JNum("0")>>),
   JObj(<<"operation", "amount1", "amount2">>, <<JStr("add"), JNum("1"), JStr("npx")>>),
   JObj(<<"operation", "amount1">>, <<JStr("tax"), JNum("1")>>),
   JObj(<<"operation">>, <<JNum("1")>>),
   JObj(<<"amount", "currency">>, <<JNum("1"), JStr("krw")>>),
   JObj(<<"amount", "currency">>, <<JNum("1"), JStr("npx")>>),
   JObj(<<"amount", "currency">>, <<JNum("1"), JNum("1")>>),
   JObj(<<"amount">>, <<JNum("1")>>),
   JObj(<<"type">>, <<JNum("1")>>),
   JObj(<<"type">>, <<JStr("npx")>>),
   JObj(<<"action">>, <<JStr("start")>>)}

CallToolInit ==
  /\ CoreIdle
  /\ ChromeIdle
  /\ fn = ""
  /\ arg \in [server : ToolServers, name : ToolNames, args : ToolArguments,
              outcome : ChromeOutcomes]
  /\ arg.server = "chrome-mcp" \/ arg.outcome = "returns"
  /\ ret = NoResult

\* one call-tool request handled by the server's handler
HandleCallTool ==
  /\ fn = ""
  /\ fn' = "CallTool"
  /\ ret' = CallTool(arg.server, arg.name, arg.args, arg.outcome)
  /\ UNCHANGED <<arg, cryptoVars, regVars, updVars, chromeVars>>

SpecCallTool == CallToolInit /\ [][HandleCallTool]_vars

(***************************************************************************)
(* chrome-mcp: the capture buffers and the requests in progress            *)
(* Every await of a handler is one step; a request is handed to the        *)
(* handler when it arrives, whatever the earlier handlers are waiting for. *)
(***************************************************************************)
MaxReqs == 3          \* call-tool requests in one behaviour

MaxBuf == 2           \* entries a capture buffer holds before events stop

CaptureTools == {"chrome_console_logs", "chrome_network_monitor"}

CaptureActions == {"start", "stop", "get", "pause"}

Buffer(tool) == IF tool = "chrome_console_logs" THEN consoleLogs ELSE networkRequests

Listening(tool) == IF tool = "chrome_console_logs" THEN consoleListening ELSE networkListening

\* assignments to the state of one of the two tools
SetBuffer(tool, buf) ==
  IF tool = "chrome_console_logs"
  THEN consoleLogs' = buf /\ UNCHANGED networkRequests
  ELSE networkRequests' = buf /\ UNCHANGED consoleLogs

SetListening(tool, b) ==
  IF tool = "chrome_console_logs"
  THEN consoleListening' = b /\ UNCHANGED networkListening
  ELSE networkListening' = b /\ UNCHANGED consoleListening

ChromeInit ==
  /\ consoleLogs = <<>>
  /\ consoleListening = FALSE
  /\ networkRequests = <<>>
  /\ networkListening = FALSE
  /\ listeners = [tool \in CaptureTools |-> 0]
  /\ client \in {"null", "open"}
  /\ req = [r \in Requests |-> IdleRequest]
  /\ nreqs = 0

ChromeOnlyInit == ChromeInit /\ CoreIdle /\ FnIdle

OtherRequests == <<consoleLogs, consoleListening, networkRequests, networkListening,
                   listeners, client, nreqs, cryptoVars, regVars, updVars, fnVars>>

\* the handler's result goes back: { content: [{ type: "text", text: result }] }
\* (before, buf: the tool's buffer as the call arrives and as it returns)
Return(r, text, buf) ==
  req' = [req EXCEPT ![r].pc = "done", ![r].res = text, ![r].buf = buf]

\* the result of get: the lines of `out`; `had` is the buffer the call found
ReturnGot(r, had, out, buf) ==
  req' = [req EXCEPT ![r].pc = "done", ![r].res = "got", ![r].buf = buf,
                     ![r].had = had, ![r].out = out]

\* filtered.filter((r) => r.url.includes(args.urlFilter))
UrlFiltered(buf) ==
  LET Matches(e) == e.match
  IN SelectSeq(buf, Matches)

\* the catch of the handler: isError
Fail(r) ==
  /\ req' = [req EXCEPT ![r].pc = "done", ![r].res = "error", ![r].buf = Buffer(req[r].tool)]
  /\ UNCHANGED <<consoleLogs, consoleListening, networkRequests, networkListening, listeners>>

\* a call-tool request arrives: handleTool runs up to the first await of getClient
Receive(r) ==
  /\ req[r].pc = "idle"
  /\ nreqs < MaxReqs
  /\ nreqs' = nreqs + 1
  /\ \E tool \in CaptureTools, action \in CaptureActions, clear, urlFilter \in BOOLEAN :
       /\ clear => action = "get"
       /\ urlFilter => action = "get" /\ tool = "chrome_network_monitor"
       /\ req' = [req EXCEPT ![r] = [IdleRequest EXCEPT
                    !.pc = IF client = "open" THEN "getVersion" ELSE "CDP",
                    !.tool = tool, !.action = action, !.clear = clear,
                    !.urlFilter = urlFilter,
                    !.before = Buffer(tool)]]
  /\ UNCHANGED <<consoleLogs, consoleListening, networkRequests, networkListening,
                 listeners, client, cryptoVars, regVars, updVars, fnVars>>

\* start that leaves the buffer as it is
FinishStartNoReset(r) ==
  /\ SetListening(req[r].tool, TRUE)
  /\ UNCHANGED <<consoleLogs, networkRequests>>
  /\ listeners' = [listeners EXCEPT ![req[r].tool] = @ + 1]
  /\ Return(r, "started", Buffer(req[r].tool))

\* the callback is registered, listening = true, the buffer = []
FinishStart(r) ==
  /\ SetListening(req[r].tool, TRUE)
  /\ SetBuffer(req[r].tool, <<>>)
  /\ listeners' = [listeners EXCEPT ![req[r].tool] = @ + 1]
  /\ Return(r, "started", <<>>)

\* handleTool after getClient has returned the client
AfterGetClient(r) ==
  LET tool == req[r].tool
      action == req[r].action
  IN CASE action = "start" /\ Listening(tool) ->
            /\ Return(r, "already", Buffer(tool))
            /\ UNCHANGED <<consoleLogs, consoleListening, networkRequests, networkListening,
                           listeners>>
       [] action = "start" /\ ~Listening(tool) ->
            /\ req' = [req EXCEPT ![r].pc = "ensureDomains"]
            /\ UNCHANGED <<consoleLogs, consoleListening, networkRequests, networkListening,
                           listeners>>
       [] action = "stop" ->
            /\ SetListening(tool, FALSE)
            /\ Return(r, "stopped", Buffer(tool))
            /\ UNCHANGED <<consoleLogs, networkRequests, listeners>>
       [] action = "get" ->
            /\ SetBuffer(tool, IF req[r].clear THEN <<>> ELSE Buffer(tool))
            /\ ReturnGot(r, Buffer(tool),
                         IF req[r].urlFilter THEN UrlFiltered(Buffer(tool)) ELSE Buffer(tool),
                         IF req[r].clear THEN <<>> ELSE Buffer(tool))
            /\ UNCHANGED <<consoleListening, networkListening, listeners>>
       [] OTHER ->
            /\ Return(r, "bad action", Buffer(tool))
            /\ UNCHANGED <<consoleLogs, consoleListening, networkRequests, networkListening,
                           listeners>>

\* await client.Browser.getVersion() answers: the connection is alive
GetVersionAlive(r) ==
  /\ req[r].pc = "getVersion"
  /\ client = "open"
  /\ AfterGetClient(r)
  /\ UNCHANGED <<client, nreqs, cryptoVars, regVars, updVars, fnVars>>

\* it throws: client = null, and CDP({ port }) is awaited
GetVersionDead(r) ==
  /\ req[r].pc = "getVersion"
  /\ client' = "null"
  /\ req' = [req EXCEPT ![r].pc = "CDP"]
  /\ UNCHANGED <<consoleLogs, consoleListening, networkRequests, networkListening,
                 listeners, nreqs, cryptoVars, regVars, updVars, fnVars>>

\* await CDP({ port }) connects: a new client, with no callbacks registered on it
Connected(r) ==
  /\ req[r].pc = "CDP"
  /\ client' = "open"
  /\ req' = [req EXCEPT ![r].pc = "getClient"]
  /\ listeners' = [tool \in CaptureTools |-> 0]
  /\ UNCHANGED <<consoleLogs, consoleListening, networkRequests, networkListening,
                 nreqs, cryptoVars, regVars, updVars, fnVars>>

\* the new client is back in handleTool
GetClientReturned(r) ==
  /\ req[r].pc = "getClient"
  /\ AfterGetClient(r)
  /\ UNCHANGED <<client, nreqs, cryptoVars, regVars, updVars, fnVars>>

\* await CDP({ port }) is refused: Chrome is not listening on the port
ConnectionRefused(r) ==
  /\ req[r].pc = "CDP"
  /\ Fail(r)
  /\ UNCHANGED <<client, nreqs, cryptoVars, regVars, updVars, fnVars>>

\* await ensureDomains(c, [...]) returns
DomainsEnabled(r) ==
  /\ req[r].pc = "ensureDomains"
  /\ FinishStart(r)
  /\ UNCHANGED <<client, nreqs, cryptoVars, regVars, updVars, fnVars>>

\* await ensureDomains(c, [...]) throws
DomainsFailed(r) ==
  /\ req[r].pc = "ensureDomains"
  /\ Fail(r)
  /\ UNCHANGED <<client, nreqs, cryptoVars, regVars, updVars, fnVars>>

\* the response has been sent
Respond(r) ==
  /\ req[r].pc = "done"
  /\ req' = [req EXCEPT ![r] = IdleRequest]
  /\ UNCHANGED OtherRequests

\* what the i-th registered callback pushes for one event: whether the tool was
\* marked as listening at the push, which callback pushed it, and whether the
\* url of the request holds the text a get may filter by
Entry(tool, i, match) == [listening |-> Listening(tool), callback |-> i, match |-> match]

\* a CDP event: every registered callback pushes one entry, listening or not
CaptureEvent(tool) ==
  /\ client = "open"
  /\ listeners[tool] > 0
  /\ Len(Buffer(tool)) + listeners[tool] <= MaxBuf
  /\ \E match \in (IF tool = "chrome_network_monitor" THEN BOOLEAN ELSE {TRUE}) :
       SetBuffer(tool, Buffer(tool) \o [i \in 1..listeners[tool] |-> Entry(tool, i, match)])
  /\ UNCHANGED <<consoleListening, networkListening, listeners, client, req, nreqs,
                 cryptoVars, regVars, updVars, fnVars>>

ChromeNext ==
  \/ \E r \in Requests :
       \/ Receive(r) \/ GetVersionAlive(r) \/ GetVersionDead(r) \/ Connected(r)
       \/ GetClientReturned(r) \/ ConnectionRefused(r) \/ DomainsEnabled(r)
       \/ DomainsFailed(r) \/ Respond(r)
  \/ \E tool \in CaptureTools : CaptureEvent(tool)

SpecChrome == ChromeOnlyInit /\ [][ChromeNext]_vars

(***************************************************************************)
(* detectServerType                                                        *)
(* A string is a sequence of fragments: the words the code looks for, and  *)
(* text that holds none of them.                                           *)
(***************************************************************************)
MaxArgs == 2          \* arguments of a registry entry

\* toLowerCase of one fragment
LowerFragment(f) ==
  CASE f = "NPX" -> "npx"
    [] f = "Python" -> "python"
    [] f = "API" -> "api"
    [] f = "TOKEN" -> "token"
    [] f = "KEY" -> "key"
    [] f = "Secret" -> "secret"
    [] OTHER -> f

\* s.toLowerCase()
toLowerCase(s) == [i \in 1..Len(s) |-> LowerFragment(s[i])]

\* s.includes(word)
includes(s, word) == \E i \in 1..Len(s) : s[i] = word

\* s.endsWith(word)
endsWith(s, word) == s # <<>> /\ s[Len(s)] = word

\* args.join(" ")
RECURSIVE join(_)
join(args) ==
  IF args = <<>> THEN <<>>
  ELSE IF Len(args) = 1 THEN args[1]
  ELSE args[1] \o <<" ">> \o join(Tail(args))

\* a detectServerType that tests for python before npm
detectServerTypePythonFirst(server) ==
  LET cmd == toLowerCase(server.command)
      args == toLowerCase(join(server.args))
  IN IF includes(cmd, "python") \/ includes(args, ".py") THEN "python"
     ELSE IF includes(cmd, "npx") \/ includes(cmd, "node") \/ includes(args, "npx") THEN "npm"
     ELSE IF includes(cmd, "java") \/ includes(args, ".jar") THEN "java"
     ELSE "other"

detectServerType(server) ==
  LET cmd == toLowerCase(server.command)
      args == toLowerCase(join(server.args))
  IN IF includes(cmd, "npx") \/ includes(cmd, "node") \/ includes(args, "npx") THEN "npm"
     ELSE IF includes(cmd, "python") \/ includes(args, ".py") THEN "python"
     ELSE IF includes(cmd, "java") \/ includes(args, ".jar") THEN "java"
     ELSE "other"

\* launch commands: npx, node, /usr/bin/node, python, Python3, java, javascript, cmd, ...
LaunchCommands ==
  {<<"npx">>, <<"NPX">>, <<"node">>, <<"/usr/bin/", "node">>, <<"python">>, <<"Python", "3">>,
   <<"/opt/", "node", "/bin/", "python">>, <<"java">>, <<"java", "script">>, <<"cmd">>, <<>>}

\* single arguments: -y, a package, server.py, npx-server.py, app.jar, node, main.pyc, ...
LaunchArguments ==
  {<<"-y">>, <<"@scope/pkg">>, <<"server", ".py">>, <<"npx", "-server", ".py">>,
   <<"app", ".jar">>, <<"node">>, <<"main", ".py", "c">>, <<"npx">>}

RECURSIVE ArgumentLists(_)
ArgumentLists(n) ==
  IF n = 0 THEN {<<>>}
  ELSE ArgumentLists(n - 1)
       \cup {Append(l, a) : l \in {m \in ArgumentLists(n - 1) : Len(m) = n - 1},
                            a \in LaunchArguments}

DetectInit ==
  /\ CoreIdle /\ ChromeIdle
  /\ fn = ""
  /\ arg \in [command : LaunchCommands, args : ArgumentLists(MaxArgs)]
  /\ ret = ""

DetectServerType ==
  /\ fn = ""
  /\ fn' = "detectServerType"
  /\ ret' = detectServerType(arg)
  /\ UNCHANGED <<arg, cryptoVars, regVars, updVars, chromeVars>>

SpecDetect == DetectInit /\ [][DetectServerType]_vars

(***************************************************************************)
(* sanitizeMCPConfig                                                       *)
(***************************************************************************)
REDACTED == <<"[REDACTED]">>

\* the argument as displayed
SanitizedArgument(a) ==
  IF includes(a, "api") \/ includes(a, "token") \/ includes(a, "key") THEN REDACTED ELSE a

\* the environment value as displayed
SanitizedValue(key, value) ==
  IF \/ includes(toLowerCase(key), "key")
     \/ includes(toLowerCase(key), "token")
     \/ includes(toLowerCase(key), "secret")
  THEN REDACTED
  ELSE value

sanitizeMCPServer(server) ==
  [command |-> server.command,
   args |-> [i \in 1..Len(server.args) |-> SanitizedArgument(server.args[i])],
   hasEnv |-> server.hasEnv,
   env |-> [i \in 1..Len(server.env) |->
              [key |-> server.env[i].key,
               value |-> SanitizedValue(server.env[i].key, server.env[i].value)]]]

\* for (const [name, server] of Object.entries(config.mcpServers))
sanitizeMCPConfig(config) == [name \in DOMAIN config |-> sanitizeMCPServer(config[name])]

\* arguments of a server: a path, --api-key=..., --token, --secret=..., --API_KEY=...
DisplayArguments ==
  {<<"/data">>, <<"--", "api", "-", "key", "=abc">>, <<"--", "token">>,
   <<"--", "secret", "=s3">>, <<"--", "API", "_", "KEY", "=abc">>, <<"TOKEN", "=t">>}

\* names of environment variables: HOME, OPENAI_API_KEY, GITHUB_TOKEN, Secret, API_URL, api
EnvironmentNames ==
  {<<"HOME">>, <<"OPENAI_", "API", "_", "KEY">>, <<"GITHUB_", "TOKEN">>, <<"Secret">>,
   <<"API", "_URL">>, <<"api">>}

Environments ==
  {<<>>} \cup {<<[key |-> k, value |-> <<"sk-value">>]>> : k \in EnvironmentNames}
  \cup {<<[key |-> <<"HOME">>, value |-> <<"/home">>], [key |-> k, value |-> <<"sk-value">>]>> :
          k \in EnvironmentNames \ {<<"HOME">>}}

DisplayArgumentLists ==
  {<<>>} \cup {<<a>> : a \in DisplayArguments}
  \cup {<<a, b>> : a \in DisplayArguments, b \in {<<"/data">>, <<"--", "secret", "=s3">>}}

SanitizeInit ==
  /\ CoreIdle /\ ChromeIdle
  /\ fn = ""
  /\ \E args \in DisplayArgumentLists, env \in Environments, names \in {{"fs"}, {"fs", "git"}} :
       arg = [name \in names |->
                IF name = "fs"
                THEN [command |-> <<"npx">>, args |-> args, hasEnv |-> env # <<>>, env |-> env]
                ELSE [command |-> <<"python">>, args |-> <<<<"server", ".py">>>>,
                      hasEnv |-> FALSE, env |-> <<>>]]
  /\ ret = [name \in {} |-> 0]

SanitizeMCPConfig ==
  /\ fn = ""
  /\ fn' = "sanitizeMCPConfig"
  /\ ret' = sanitizeMCPConfig(arg)
  /\ UNCHANGED <<arg, cryptoVars, regVars, updVars, chromeVars>>

SpecSanitize == SanitizeInit /\ [][SanitizeMCPConfig]_vars

(***************************************************************************)
(* Exit statuses of the command-line tools                                 *)
(* A run is a command and the one thing that is wrong in it, if anything.  *)
(***************************************************************************)
\* what can be wrong: the arguments, a missing file or variable, a missing
\* external tool, a failing registry, database or file system
Failures == {"none", "arguments", "configuration", "tool", "upstream"}

\* a process that ended; caught: on a path of the code that handles an error
Exit(status, caught) == [status |-> status, caught |-> caught]

\* td_run_sql.sh: td_load_env.sh, the options, the SQL file, bteq
td_run_sql(command, failure) ==
  IF failure = "configuration" THEN Exit(1, TRUE)       \* ${TD_HOST:?TD_HOST is required}
  ELSE IF command = "--help" THEN Exit(0, FALSE)
  ELSE IF failure = "arguments" THEN Exit(1, TRUE)      \* SQL file not found
  ELSE IF failure = "tool" THEN Exit(127, TRUE)         \* bteq not found
  ELSE IF failure = "upstream" THEN Exit(124, FALSE)    \* timeout ran out: its status goes through
  ELSE Exit(0, FALSE)

\* updateCli.ts main(): the switch inside try, process.exit(1) in the catch
updateCli(command, failure) ==
  CASE command = "check" -> IF failure = "upstream" THEN Exit(1, TRUE) ELSE Exit(0, FALSE)
    [] command \in {"update", "install"} ->
         IF failure \in {"arguments", "upstream"} THEN Exit(1, TRUE) ELSE Exit(0, FALSE)
    \* runAutoUpdate logs the failure itself and returns
    [] command = "auto" -> IF failure = "upstream" THEN Exit(0, TRUE) ELSE Exit(0, FALSE)
    [] command = "config" ->
         IF failure \in {"arguments", "upstream"} THEN Exit(1, TRUE) ELSE Exit(0, FALSE)
    [] command \in {"enable", "disable"} ->
         IF failure = "upstream" THEN Exit(1, TRUE) ELSE Exit(0, FALSE)
    [] command \in {"status", "help"} -> Exit(0, FALSE)
    [] OTHER -> Exit(1, TRUE)

\* the MCP config encryption CLI: every verb rethrows, the catch exits with 1
mcpConfigCli(command, failure) ==
  CASE command \in {"encrypt", "decrypt", "load", "restore"} ->
         IF failure \in {"configuration", "upstream"} THEN Exit(1, TRUE) ELSE Exit(0, FALSE)
    [] OTHER -> Exit(0, FALSE)

CliCommands ==
  [td_run_sql |-> {"--help", "run"},
   updateCli |-> {"check", "update", "install", "auto", "config", "enable", "disable",
                  "status", "help", "bogus"},
   mcpConfigCli |-> {"encrypt", "decrypt", "load", "restore", "status", "bogus"}]

RunCli(cli, command, failure) ==
  CASE cli = "td_run_sql" -> td_run_sql(command, failure)
    [] cli = "updateCli" -> updateCli(command, failure)
    [] cli = "mcpConfigCli" -> mcpConfigCli(command, failure)

ExitInit ==
  /\ CoreIdle /\ ChromeIdle
  /\ fn = ""
  /\ \E cli \in DOMAIN CliCommands, failure \in Failures :
       \E command \in CliCommands[cli] :
          arg = [cli |-> cli, command |-> command, failure |-> failure]
  /\ ret = Exit(0, FALSE)

RunToExit ==
  /\ fn = ""
  /\ fn' = "cli"
  /\ ret' = RunCli(arg.cli, arg.command, arg.failure)
  /\ UNCHANGED <<arg, cryptoVars, regVars, updVars, chromeVars>>

SpecExit == ExitInit /\ [][RunToExit]_vars

(***************************************************************************)
(* fetchAnthropicUsage                                                     *)
(***************************************************************************)
\* params.startingAt, params.endingAt as the caller may give them
DateArguments == {"2025-01-01", "2025-01-02", "2025-01-03T12:00:00Z", "yesterday", ""}

\* new Date(text).getTime(): half days since 2025-01-01, or NaN
NewDate(text) ==
  CASE text = "2025-01-01" -> [nan |-> FALSE, time |-> 0]
    [] text = "2025-01-02" -> [nan |-> FALSE, time |-> 2]
    [] text = "2025-01-03T12:00:00Z" -> [nan |-> FALSE, time |-> 5]
    [] OTHER -> [nan |-> TRUE, time |-> 0]

\* what https.get and the response handlers make of the request
HttpOutcomes == {"200", "200 not JSON", "500", "error"}

Rejected(error) == [kind |-> "throw", error |-> error, requests |-> 0]

Requested(outcome) ==
  [kind |-> IF outcome = "200" THEN "resolve" ELSE "reject",
   error |-> CASE outcome = "200" -> ""
               [] outcome = "200 not JSON" -> "Failed to parse response"
               [] outcome = "500" -> "API request failed"
               [] OTHER -> "Request failed",
   requests |-> 1]

\* startDate > endDate
StartsAfterEnd(startDate, endDate) == startDate.time > endDate.time

fetchAnthropicUsage(params, key, outcome) ==
  LET startDate == NewDate(params.startingAt)
      endDate == NewDate(params.endingAt)
  IN IF key = "" THEN Rejected("API key is required")
     ELSE IF startDate.nan THEN Rejected("Invalid start date")
     ELSE IF endDate.nan THEN Rejected("Invalid end date")
     ELSE IF StartsAfterEnd(startDate, endDate) THEN Rejected("Start date must be before end date")
     ELSE Requested(outcome)

UsageInit ==
  /\ CoreIdle /\ ChromeIdle
  /\ fn = ""
  /\ arg \in [params : [startingAt : DateArguments, endingAt : DateArguments],
              key : {"", "sk-ant-admin"}, outcome : HttpOutcomes]
  /\ ret = Rejected("")

FetchAnthropicUsage ==
  /\ fn = ""
  /\ fn' = "fetchAnthropicUsage"
  /\ ret' = fetchAnthropicUsage(arg.params, arg.key, arg.outcome)
  /\ UNCHANGED <<arg, cryptoVars, regVars, updVars, chromeVars>>

SpecUsage == UsageInit /\ [][FetchAnthropicUsage]_vars

(***************************************************************************)
(* money-mcp: dutch_pay                                                    *)
(* A JSON value that stands for an amount: its type, and what ToNumber     *)
(* makes of it, counted in halves (h = 3 is 1.5) or NaN.                   *)
(***************************************************************************)
MaxTotal == 12        \* the largest total, in won

MaxPeople == 4        \* the largest number of people

Amount(n) == [t |-> "num", nan |-> FALSE, h |-> 2 * n]

\* a number with a fraction: n + 0.5
AmountAndHalf(n) == [t |-> "num", nan |-> FALSE, h |-> 2 * n + 1]

\* a string that spells the number n
NumericString(n) == [t |-> "str", nan |-> FALSE, h |-> 2 * n]

\* a string that spells no number
OtherString == [t |-> "str", nan |-> TRUE, h |-> 0]

Null == [t |-> "null", nan |-> FALSE, h |-> 0]

Undefined == [t |-> "undefined", nan |-> TRUE, h |-> 0]

NaN == [t |-> "num", nan |-> TRUE, h |-> 0]

\* Math.floor(a / b) for the per-person share
PerPersonFloor(total, people) ==
  IF total.nan THEN NaN ELSE Amount(total.h \div people.h)

\* Math.ceil(total / people)
PerPerson(total, people) ==
  IF total.nan THEN NaN ELSE Amount((total.h + people.h - 1) \div people.h)

\* total - perPerson * (people - 1)
Remainder(total, perPerson, people) ==
  IF total.nan \/ perPerson.nan THEN NaN
  ELSE [t |-> "num", nan |-> FALSE, h |-> total.h - (perPerson.h * (people.h - 2)) \div 2]

\* a !== b on numbers: NaN differs from everything, itself included
StrictlyUnequal(a, b) == a.nan \/ b.nan \/ a.h # b.h

dutch_pay(total, people) ==
  IF total.t \in {"null", "undefined"} \/ (~total.nan /\ total.h <= 0)
  THEN [kind |-> "error", perPerson |-> NaN, last |-> NaN, separate |-> FALSE]
  ELSE IF \/ people.t \in {"null", "undefined"}
          \/ (~people.nan /\ people.h <= 0)
          \/ ~(people.t = "num" /\ ~people.nan /\ people.h % 2 = 0)
  THEN [kind |-> "error", perPerson |-> NaN, last |-> NaN, separate |-> FALSE]
  ELSE LET perPerson == PerPerson(total, people)
           remainder == Remainder(total, perPerson, people)
       IN [kind |-> "text", perPerson |-> perPerson, last |-> remainder,
           separate |-> StrictlyUnequal(remainder, perPerson)]

DutchTotals ==
  {Amount(n) : n \in -1..MaxTotal} \cup {AmountAndHalf(n) : n \in {0, 10}}
  \cup {NumericString(10), OtherString, Null, Undefined}

DutchPeople ==
  {Amount(n) : n \in -1..MaxPeople} \cup {AmountAndHalf(1), NumericString(2), Null, Undefined}

DutchInit ==
  /\ CoreIdle /\ ChromeIdle
  /\ fn = ""
  /\ arg \in [total : DutchTotals, people : DutchPeople]
  /\ ret = [kind |-> "", perPerson |-> NaN, last |-> NaN, separate |-> FALSE]

DutchPay ==
  /\ fn = ""
  /\ fn' = "dutch_pay"
  /\ ret' = dutch_pay(arg.total, arg.people)
  /\ UNCHANGED <<arg, cryptoVars, regVars, updVars, chromeVars>>

SpecDutch == DutchInit /\ [][DutchPay]_vars

(***************************************************************************)
(* money-mcp: vat_calculator                                               *)
(* Amounts are counted in tenths of a won, so that 0.1 * amount and        *)
(* amount / 1.1 are ratios of whole numbers.  The result is what the text  *)
(* shows: each figure through f = Math.round(n).toLocaleString().          *)
(***************************************************************************)
MaxVatTenths == 300   \* the largest amount, in tenths of a won

\* Math.floor(num / den), den > 0
Floor(num, den) == num \div den

\* Math.round(num / den), den > 0: the nearest whole number, halves upwards
Round(num, den) == (2 * num + den) \div (2 * den)

\* Math.floor(amount / 1.1)
SupplyOfTotalFloor(tenths) == Floor(tenths, 11)

\* Math.round(amount / 1.1)
SupplyOfTotal(tenths) == Round(tenths, 11)

VatError == [kind |-> "error", supply |-> 0, vat |-> 0, total |-> 0]

vat_calculator(type, amount) ==
  IF type \notin {"supply", "total"} THEN VatError
  ELSE IF amount.null \/ amount.tenths <= 0 THEN VatError
  ELSE IF type = "supply"
  THEN \* supply = amount; vat = amount * 0.1; total = amount + vat
       [kind |-> "text",
        supply |-> Round(amount.tenths, 10),
        vat |-> Round(amount.tenths, 100),
        total |-> Round(11 * amount.tenths, 100)]
  ELSE \* total = amount; supply = Math.round(amount / 1.1); vat = amount - supply
       LET supply == SupplyOfTotal(amount.tenths)
       IN [kind |-> "text",
           supply |-> supply,
           vat |-> Round(amount.tenths - 10 * supply, 10),
           total |-> Round(amount.tenths, 10)]

VatAmounts ==
  {[null |-> FALSE, tenths |-> n] : n \in -10..MaxVatTenths}
  \cup {[null |-> TRUE, tenths |-> 0]}

VatInit ==
  /\ CoreIdle /\ ChromeIdle
  /\ fn = ""
  /\ arg \in [type : {"supply", "total", "vat"}, amount : VatAmounts]
  /\ ret = <<>>

\* one call of the tool with the drawn arguments
VatCall ==
  /\ fn = ""
  /\ fn' = "vat_calculator"
  /\ ret' = <<vat_calculator(arg.type, arg.amount)>>
  /\ UNCHANGED <<arg, cryptoVars, regVars, updVars, chromeVars>>

\* a second call that converts the total shown by a supply call back
VatCallBack ==
  /\ fn = "vat_calculator" /\ Len(ret) = 1
  /\ arg.type = "supply" /\ ret[1].kind = "text"
  /\ ret' = Append(ret, vat_calculator("total", [null |-> FALSE, tenths |-> 10 * ret[1].total]))
  /\ UNCHANGED <<fn, arg, cryptoVars, regVars, updVars, chromeVars>>

VatNext == VatCall \/ VatCallBack

SpecVat == VatInit /\ [][VatNext]_vars

(***************************************************************************)
(* money-mcp: retirement_pay                                               *)
(* Months are counted in hundredths, so that months * 30.44 is a ratio of  *)
(* whole numbers; the salary and the years are whole numbers.              *)
(***************************************************************************)
MaxYears == 2         \* the largest number of years of service

MaxSalary == 20       \* the largest average monthly salary

\* years * 365 + Math.round(extraMonths * 30.44)
TotalDays(years, hundredths) == years * 365 + Round(3044 * hundredths, 10000)

\* the payout is computed only after a year and a day
EligibleAfterAYear(totalDays) == totalDays > 365

\* totalDays < 365 is not eligible
Eligible(totalDays) == ~(totalDays < 365)

retirement_pay(salary, years, months) ==
  IF salary.null \/ salary.n <= 0
  THEN [kind |-> "text", msg |-> "error: avg_monthly_salary", days |-> 0, pay |-> 0]
  ELSE IF years.null \/ years.n < 0
  THEN [kind |-> "text", msg |-> "error: years", days |-> 0, pay |-> 0]
  ELSE LET extraMonths == IF months.null THEN 0 ELSE months.n
           totalDays == TotalDays(years.n, extraMonths)
       IN IF ~Eligible(totalDays)
          THEN [kind |-> "text", msg |-> "not eligible", days |-> totalDays, pay |-> 0]
          ELSE \* f((avg_monthly_salary / 30 * 30) * (totalDays / 365))
               [kind |-> "text", msg |-> "retirement pay", days |-> totalDays,
                pay |-> Round(salary.n * totalDays, 365)]

Given(n) == [null |-> FALSE, n |-> n]

NotGiven == [null |-> TRUE, n |-> 0]

ServiceMonths ==
  {NotGiven} \cup {Given(h) : h \in {-100, 0, 100, 600, 1100, 1195, 1196, 1197, 1198, 1199, 1200, 1201, 1300}}

RetirementInit ==
  /\ CoreIdle /\ ChromeIdle
  /\ fn = ""
  /\ arg \in [avg_monthly_salary : {NotGiven} \cup {Given(n) : n \in -1..MaxSalary},
              years : {NotGiven} \cup {Given(n) : n \in -1..MaxYears},
              months : ServiceMonths]
  /\ ret = [kind |-> "", msg |-> "", days |-> 0, pay |-> 0]

RetirementPay ==
  /\ fn = ""
  /\ fn' = "retirement_pay"
  /\ ret' = retirement_pay(arg.avg_monthly_salary, arg.years, arg.months)
  /\ UNCHANGED <<arg, cryptoVars, regVars, updVars, chromeVars>>

SpecRetirement == RetirementInit /\ [][RetirementPay]_vars

(***************************************************************************)
(* Claims                                                                  *)
(***************************************************************************)
Done(p, op) == proc[p].op = op /\ proc[p].pc = "done"

Succeeded(p, op) == Done(p, op) /\ proc[p].res.ok

\* the servers of a registry
ServersOf(config) == Get(config, "mcpServers")

\* the registry held by a file
RegistryIn(file) == Parse(file.text).v

\* C1: once the encrypt verb has written the envelope of a registry file, a
\* load through the loader (same key in the environment) returns the config
\* the registry file held before the encryption, and listMCPServers returns
\* the server names that registry file had.
C1_EncryptThenLoad ==
  \A p \in Procs :
    encSnap.exists =>
      /\ Done(p, "load") => proc[p].res = Ok(RegistryIn(encSnap))
      /\ Done(p, "list") => proc[p].res = ServerNamesOf(RegistryIn(encSnap))

C1_Witness ==
  /\ encSnap.exists
  /\ Succeeded(1, "list")
  /\ Len(proc[1].res.v.kids) = 2
  /\ proc[1].res = ServerNamesOf(RegistryIn(encSnap))

\* C2: the loader reads the plaintext registry only when no envelope file
\* exists; with an envelope it returns what the envelope decrypts to, and a
\* failure of that decryption (key missing, short or wrong, envelope changed
\* or of an unsupported version or algorithm) is the error the caller gets.
C2_LoadPrefersEnvelope ==
  \A p \in Procs :
    (proc[p].op \in {"load", "list"} /\ proc[p].pc = "done") =>
      LET envelope == fs[ENCRYPTED_CONFIG_PATH]
          password == getEncryptionPassword
          decrypted == decryptJSON(envelope.text, envKey)
      IN /\ MCP_CONFIG_PATH \in proc[p].rd => ~envelope.exists
         /\ (envelope.exists /\ ~password.ok) =>
               ~proc[p].res.ok /\ proc[p].res.err = password.err
         /\ (envelope.exists /\ password.ok /\ ~decrypted.ok) =>
               ~proc[p].res.ok /\ proc[p].res.err = decrypted.err
         /\ (envelope.exists /\ password.ok /\ decrypted.ok) =>
               proc[p].res = Loaded(proc[p].op, decrypted.v)

C2_Witness ==
  /\ Done(1, "load")
  /\ fs[ENCRYPTED_CONFIG_PATH].exists
  /\ Parse(fs[MCP_CONFIG_PATH].text).ok
  /\ getEncryptionPassword.ok
  /\ proc[1].res = Err("AuthError")

\* C6: decryptJSON(encryptJSON(value, password), password) is value for every
\* value JSON can express and every password of 16 characters or more, and
\* decryptJSON of that envelope with another password fails on the
\* authentication tag and returns nothing.
C6_RoundTrip ==
  (cpc = "decrypted" /\ Len(cpw) >= 16) =>
    /\ IsJsonValue(cval) => cres = Ok(cval)
    /\ cpw2 # cpw => cresOther = Err("AuthError")

C6_Witness ==
  /\ cpc = "decrypted"
  /\ Len(cpw) >= 16
  /\ cval.t = "obj"
  /\ Len(cval.kids) = 2
  /\ IsJsonValue(cval)
  /\ cres = Ok(cval)
  /\ cpw2 # cpw
  /\ cresOther = Err("AuthError")

\* C7: when the encrypt verb has written the envelope, it wrote the backup
\* before it, the backup is a copy of the registry file that was encrypted, the
\* envelope decrypts to that registry, and the registry file is as it was.
C7_BackupBeforeEnvelope ==
  \A p \in Procs :
    (proc[p].op = "encrypt" /\ ENCRYPTED_CONFIG_PATH \in {proc[p].wr[i] : i \in 1..Len(proc[p].wr)}) =>
      /\ proc[p].wr = <<BACKUP_PATH, ENCRYPTED_CONFIG_PATH>>
      /\ fs[BACKUP_PATH].exists
      /\ fs[BACKUP_PATH].text = proc[p].data
      /\ decryptJSON(fs[ENCRYPTED_CONFIG_PATH].text, proc[p].pw) = Parse(fs[BACKUP_PATH].text)
      /\ fs[MCP_CONFIG_PATH] = fs[BACKUP_PATH]
      /\ fs[MCP_CONFIG_PATH] = proc[p].snap[MCP_CONFIG_PATH]

C7_Witness ==
  /\ Succeeded(1, "encrypt")
  /\ proc[1].wr = <<BACKUP_PATH, ENCRYPTED_CONFIG_PATH>>
  /\ proc[1].snap[ENCRYPTED_CONFIG_PATH].exists
  /\ Len(ServersOf(RegistryIn(fs[BACKUP_PATH])).keys) = 2

\* C8: the decrypt verb writes no file but the .decrypted sibling: while it
\* runs and when it is over, with or without an error, the registry file and
\* every other file are as they were when it started.
C8_DecryptLeavesRegistry ==
  \A p \in Procs :
    proc[p].op = "decrypt" =>
      /\ \A f \in Paths \ {DecryptedPath} : fs[f] = proc[p].snap[f]
      /\ \A i \in 1..Len(proc[p].wr) : proc[p].wr[i] = DecryptedPath
      /\ (proc[p].pc = "done" /\ ~proc[p].res.ok) => fs = proc[p].snap
      /\ (proc[p].pc = "done" /\ proc[p].res.ok) =>
            Parse(fs[DecryptedPath].text) = decryptJSON(fs[ENCRYPTED_CONFIG_PATH].text, envKey)

C8_Witness ==
  /\ Succeeded(1, "decrypt")
  /\ fs[MCP_CONFIG_PATH].exists
  /\ fs[DecryptedPath].exists
  /\ fs[DecryptedPath].text # fs[MCP_CONFIG_PATH].text

KeySet(v) == {v.keys[i] : i \in 1..Len(v.keys)}

\* every property of the object before but k is in after with the same value
SameBut(before, after, k) ==
  /\ KeySet(after) \ {k} = KeySet(before) \ {k}
  /\ \A other \in KeySet(before) \ {k} : Get(after, other) = Get(before, other)

\* C5: the manager saves the registry it loaded with its own change whatever
\* the file holds at the save (no lock, no version check), so two installs of
\* different server names can both report success with a final registry that
\* holds the entry of one of them only.
C5_SaveIgnoresOtherWriters ==
  [][\A p \in Procs :
       (proc[p].pc = "saveMCPConfig" /\ proc'[p].pc = "done") =>
         /\ proc'[p].res.ok
         /\ RegistryIn(fs'[ManagerConfigPath])
              = Changed(proc[p].op, proc[p].cfg, proc[p].name, proc[p].pkg, proc[p].spath).v]_vars

C5_Witness ==
  /\ Succeeded(1, "install")
  /\ Succeeded(2, "install")
  /\ proc[1].name # proc[2].name
  /\ ~HasKey(ServersOf(RegistryIn(fs[ManagerConfigPath])), proc[1].name)
  /\ HasKey(ServersOf(RegistryIn(fs[ManagerConfigPath])), proc[2].name)

\* C9: removeMCPServer(name) of a name in the registry deletes that entry and
\* nothing else: every other entry and every other property of the registry
\* file is as before, no other file is written, and nothing installed on disk
\* (package, virtual environment) is removed.
C9_RemoveOnlyEntry ==
  \A p \in Procs :
    proc[p].op = "remove" =>
      LET before == RegistryIn(proc[p].snap[ManagerConfigPath])
          after == RegistryIn(fs[ManagerConfigPath])
      IN /\ installed = proc[p].pkgs
         /\ \A f \in Paths \ {ManagerConfigPath} : fs[f] = proc[p].snap[f]
         /\ (proc[p].pc = "done" /\ ~proc[p].res.ok) => fs = proc[p].snap
         /\ (proc[p].pc = "done" /\ proc[p].res.ok) =>
               /\ HasKey(ServersOf(before), proc[p].name)
               /\ ~HasKey(ServersOf(after), proc[p].name)
               /\ SameBut(ServersOf(before), ServersOf(after), proc[p].name)
               /\ SameBut(before, after, "mcpServers")

C9_Witness ==
  /\ Succeeded(1, "remove")
  /\ Len(ServersOf(RegistryIn(proc[1].snap[ManagerConfigPath])).keys) = 2
  /\ Len(ServersOf(RegistryIn(fs[ManagerConfigPath])).keys) = 1
  /\ ".venv" \in installed

\* C10: installNpmMCPServer installs the package and only then writes the
\* registry: after success the entry serverName has command npx and arguments
\* "-y", packageName and the path when one is given, every other entry is as
\* before, and a failed install leaves the registry file unwritten.
C10_InstallThenRegister ==
  \A p \in Procs :
    proc[p].op = "install" =>
      LET before == RegistryIn(proc[p].snap[ManagerConfigPath])
          after == RegistryIn(fs[ManagerConfigPath])
          entry == Get(ServersOf(after), proc[p].name)
      IN /\ proc[p].pc = "npmInstall" => fs = proc[p].snap /\ installed = proc[p].pkgs
         /\ proc[p].wr # <<>> => proc[p].pkg \in installed
         /\ (proc[p].pc = "done" /\ ~proc[p].res.ok) => fs = proc[p].snap /\ proc[p].wr = <<>>
         /\ (proc[p].pc = "done" /\ proc[p].res.ok) =>
               /\ proc[p].pkg \in installed
               /\ Get(entry, "command") = JStr("npx")
               /\ Get(entry, "args")
                    = JArr(IF proc[p].spath = ""
                           THEN <<JStr("-y"), JStr(proc[p].pkg)>>
                           ELSE <<JStr("-y"), JStr(proc[p].pkg), JStr(proc[p].spath)>>)
               /\ SameBut(ServersOf(before), ServersOf(after), proc[p].name)
               /\ SameBut(before, after, "mcpServers")

C10_Witness ==
  /\ Succeeded(1, "install")
  /\ proc[1].spath # ""
  /\ Len(Get(Get(ServersOf(RegistryIn(fs[ManagerConfigPath])), proc[1].name), "args").kids) = 3
  /\ Len(ServersOf(RegistryIn(fs[ManagerConfigPath])).keys) = 2


\* two consecutive runAutoUpdate calls, both with auto-update enabled, the second
\* less than the configured check interval after the first
TwiceWithinInterval ==
  /\ prev.ran /\ last.ran
  /\ prev.config.enabled /\ last.config.enabled
  /\ last.t - prev.t < last.config.checkInterval * MsPerHour

SecondSkipped == ~last.lookup /\ last.msg = "Update check skipped (checked recently)."

C4_InstallOnlyWhenConfigured ==
  /\ last.install => last.update /\ last.config.autoInstall /\ ~last.config.notifyOnly
  /\ prev.install => prev.update /\ prev.config.autoInstall /\ ~prev.config.notifyOnly
  /\ last.config = DEFAULT_CONFIG => ~last.install

C4_Witness ==
  /\ last.install /\ last.update
  /\ last.config.autoInstall /\ ~last.config.notifyOnly
  /\ prev.ran /\ prev.update /\ ~prev.install


\* C11 as stated: no MCP tool server lets an exception escape from its call-tool
\* handler; for every tool name and every argument object, missing and null
\* arguments and unknown tool names included, the handler returns a textual result.
C11_NoExceptionEscapes == fn = "CallTool" => ret.kind = "text"


\* the handler of request r has started and has not returned
InProgress(r) == req[r].pc \notin {"idle", "done"}

\* C12 as stated: an MCP tool server processes one call-tool request to
\* completion, every awaited step of its handler included, before it starts
\* handling the next; two call-tool requests are never in progress at the same
\* time in one server.
C12_OneRequestAtATime == Cardinality({r \in Requests : InProgress(r)}) <= 1

StartReturned(r) ==
  req[r].pc = "done" /\ req[r].action = "start" /\ req[r].res \in {"started", "already"}

C14_RunAutoUpdateNeverThrows ==
  /\ last.ran => ~last.threw
  /\ prev.ran => ~prev.threw
  /\ last.ran /\ last.config.enabled /\ last.lookup /\ ~last.checked
       => last.msg = "Auto-update check failed:"

C14_Witness ==
  /\ last.ran /\ last.lookup /\ ~last.checked
  /\ ~last.threw /\ last.msg = "Auto-update check failed:"


\* C15 as stated: the persisted auto-update state always has a check interval
\* greater than zero; no sequence of config, enable and disable commands or
\* configureUpdate calls stores a zero, negative or non-numeric checkInterval.
C15_IntervalPositive == ucfg.exists => ucfg.config.checkInterval > 0


\* what the claim reads in an entry
CommandHas(word) == includes(toLowerCase(arg.command), word)

ArgumentsHave(word) == \E i \in 1..Len(arg.args) : includes(toLowerCase(arg.args[i]), word)

PythonScriptEntry ==
  /\ CommandHas("python")
  /\ \E i \in 1..Len(arg.args) : endsWith(arg.args[i], ".py")

LooksNpm == CommandHas("npx") \/ CommandHas("node") \/ ArgumentsHave("npx")

LooksPython == CommandHas("python") \/ ArgumentsHave(".py")

LooksJava == CommandHas("java") \/ ArgumentsHave(".jar")

\* C16 as stated, its particular case: every entry whose command contains
\* "python" and that has an argument ending in ".py" is classified python.
C16_PythonScriptIsPython ==
  fn = "detectServerType" /\ PythonScriptEntry => ret = "python"

\* C16: detectServerType takes the first match in the order npm, python, java:
\* npm when the command contains npx or node or the arguments contain npx;
\* otherwise python when the command contains python or the arguments contain
\* .py; otherwise java when the command contains java or the arguments contain
\* .jar; otherwise other. An entry whose command contains "python" and that has
\* an argument ending in ".py" is classified python unless it also matches npm.
C16_FirstMatchWins ==
  fn = "detectServerType" =>
    /\ LooksNpm => ret = "npm"
    /\ ~LooksNpm /\ LooksPython => ret = "python"
    /\ ~LooksNpm /\ ~LooksPython /\ LooksJava => ret = "java"
    /\ ~LooksNpm /\ ~LooksPython /\ ~LooksJava => ret = "other"
    /\ PythonScriptEntry /\ ~LooksNpm => ret = "python"

C16_Witness ==
  /\ fn = "detectServerType" /\ PythonScriptEntry /\ ~LooksNpm /\ LooksJava
  /\ ret = "python"


SensitiveWords == {"api", "token", "key", "secret"}

\* C17 as stated: in the config returned by sanitizeMCPConfig, every argument
\* containing "api", "token", "key" or "secret", and every environment value
\* whose variable name contains one of those four words in any letter case, is
\* replaced by the redaction marker.
C17_SensitiveValuesRedacted ==
  fn = "sanitizeMCPConfig" =>
    \A name \in DOMAIN arg :
      /\ \A i \in 1..Len(arg[name].args) :
           (\E w \in SensitiveWords : includes(arg[name].args[i], w))
             => ret[name].args[i] = REDACTED
      /\ \A i \in 1..Len(arg[name].env) :
           (\E w \in SensitiveWords : includes(toLowerCase(arg[name].env[i].key), w))
             => ret[name].env[i].value = REDACTED


\* C18 as stated: every CLI exits with status 0 on success and with status 1 on
\* any caught error (argument validation failure, missing configuration, missing
\* external tool, upstream failure); no CLI ends a caught-error path with status
\* 0 or with any status other than 1.
C18_ExitZeroOrOne ==
  fn = "cli" =>
    /\ ret.caught => ret.status = 1
    /\ arg.failure = "none" /\ ~ret.caught => ret.status = 0


InvalidRange ==
  \/ NewDate(arg.params.startingAt).nan
  \/ NewDate(arg.params.endingAt).nan
  \/ ~(NewDate(arg.params.startingAt).time < NewDate(arg.params.endingAt).time)

InvalidInputErrors ==
  {"Invalid start date", "Invalid end date", "Start date must be before end date"}

\* C19 as stated: fetchAnthropicUsage fails with an invalid-input error, before
\* any HTTP request is issued, for every call (with an API key) in which either
\* time stamp is not a parseable date or the start does not strictly precede the
\* end, start equal to end included.
C19_InvalidRangeRejected ==
  fn = "fetchAnthropicUsage" /\ arg.key # "" /\ InvalidRange =>
    ret.kind = "throw" /\ ret.error \in InvalidInputErrors /\ ret.requests = 0


\* dutch_pay took the total and the people count
DutchAccepted == fn = "dutch_pay" /\ ret.kind = "text"

\* (people - 1) * ceil(total / people) + remainder = total, all in halves; the
\* ceiling c is the least whole number with c * people >= total
Conserved ==
  /\ ~arg.total.nan /\ ~ret.last.nan
  /\ \E c \in 0..(MaxTotal + 1) :
       /\ 2 * c * arg.people.h >= 2 * arg.total.h
       /\ 2 * (c - 1) * arg.people.h < 2 * arg.total.h
       /\ (arg.people.h - 2) * c + ret.last.h = arg.total.h

WholeNumber(v) == v.t = "num" /\ ~v.nan /\ v.h % 2 = 0

VatRoundTrip == fn = "vat_calculator" /\ arg.type = "supply" /\ Len(ret) = 2

\* the second call gave a supply less than one won away from the amount
VatRecovered ==
  /\ ret[2].kind = "text"
  /\ 10 * ret[2].supply - arg.amount.tenths < 10
  /\ arg.amount.tenths - 10 * ret[2].supply < 10

\* C21 as stated: for any positive amount, converting supply to total with
\* vat_calculator and converting that total back to supply recovers the amount
\* to within rounding.
C21_RoundTripRecovers == VatRoundTrip => VatRecovered

\* C21: for any amount of at least half a won, converting supply to total with
\* vat_calculator and converting that total back to supply recovers the amount
\* to within rounding, and recovers a whole amount exactly.
C21_RoundTripRecoversFromHalfAWon ==
  VatRoundTrip /\ arg.amount.tenths >= 5 =>
    /\ VatRecovered
    /\ arg.amount.tenths % 10 = 0 => 10 * ret[2].supply = arg.amount.tenths

C21_Witness ==
  /\ VatRoundTrip /\ arg.amount.tenths = 100
  /\ ret[1].total = 11 /\ ret[2].supply = 10


\* retirement_pay took the salary and the years and counted the days of service
ServiceCounted ==
  /\ fn = "retirement_pay"
  /\ ret.msg \in {"not eligible", "retirement pay"}

\* C22: retirement_pay returns the not-eligible message, as a normal result,
\* when the total service is 364 days or fewer, and a payout equal to the
\* average monthly salary when the total service is exactly 365 days.
C22_EligibleFromADayOverAYear ==
  ServiceCounted =>
    /\ ret.kind = "text"
    /\ ret.days <= 364 => ret.msg = "not eligible"
    /\ ret.days = 365 => ret.msg = "retirement pay" /\ ret.pay = arg.avg_monthly_salary.n

C22_Witness ==
  /\ ServiceCounted /\ ret.days = 365 /\ arg.years = Given(0)
  /\ ret.msg = "retirement pay" /\ ret.pay = MaxSalary


\* the manager's last command made its change and the loader has returned since
LoadedAfterChange(op) ==
  /\ Succeeded(1, op)
  /\ proc[2].op \in {"load", "list"} /\ proc[2].pc = "done"

\* the server names in what the loader returned
NamesLoaded ==
  IF ~proc[2].res.ok THEN {}
  ELSE IF proc[2].op = "list"
       THEN {proc[2].res.v.kids[i].s : i \in 1..Len(proc[2].res.v.kids)}
       ELSE {n \in ServerNames : Truthy(Get(ServersOf(proc[2].res.v), n))}

\* C23: a server added to the registry by the manager's install, or deleted by
\* its remove, is reflected in what the loader returns afterwards, including
\* when an encrypted envelope exists at the time of the change.
C23_LoaderSeesManagerChange ==
  /\ LoadedAfterChange("install") => proc[2].res.ok /\ proc[1].name \in NamesLoaded
  /\ LoadedAfterChange("remove") => proc[2].res.ok /\ proc[1].name \notin NamesLoaded


\* the entries of both capture buffers
Captured ==
  {consoleLogs[i] : i \in 1..Len(consoleLogs)}
  \cup {networkRequests[i] : i \in 1..Len(networkRequests)}

\* C24: after a stop call of the console-log tool or the network-monitor tool
\* has returned, the corresponding capture buffer receives no further entries
\* until the next start call.
C24_NoEntriesAfterStop == \A e \in Captured : e.listening

\* C25: each console-API event, and each completed network request, is recorded
\* in its capture buffer at most once, whatever sequence of start, stop and get
\* calls came before it.
C25_RecordedAtMostOnce == \A e \in Captured : e.callback = 1

\* C26: whenever console or network capture is marked as listening, an event
\* subscription for it exists on the CDP client that tool calls currently use,
\* including after the cached client was re-established.
C26_ListeningHasSubscription ==
  \A tool \in CaptureTools : Listening(tool) /\ client = "open" => listeners[tool] > 0

\* C27: a get call with the clear flag removes from the capture buffer only
\* entries that the same response returned to the caller; a network get with a
\* URL filter and the clear flag does not discard requests that did not match.
C27_ClearRemovesOnlyReturned ==
  \A r \in Requests :
    req[r].pc = "done" /\ req[r].res = "got" /\ req[r].clear =>
      \A i \in 1..Len(req[r].had) :
        \E j \in 1..Len(req[r].out) : req[r].out[j] = req[r].had[i]


\* the last runAutoUpdate call found a check due: the interval has passed since
\* the recorded check, or no valid check time is recorded
CheckDue ==
  /\ last.ran /\ last.config.enabled
  /\ \/ ~last.found.exists
     \/ last.found.nan
     \/ last.t - last.found.ms >= last.config.checkInterval * MsPerHour

\* C28: if auto-update is enabled and either at least checkInterval hours have
\* passed since the last recorded check or no valid last-check time is recorded
\* (file missing, empty or not a number), the next runAutoUpdate call goes on to
\* the registry lookup rather than skipping.
C28_DueCheckIsNotSkipped ==
  CheckDue => last.msg # "Update check skipped (checked recently)."


\* the key in the environment is missing or shorter than 16 characters
KeyUnusable == envKey = "" \/ Len(envKey) < 16

\* the encrypt verb has written nothing
NothingWritten(p) == fs = proc[p].snap /\ proc[p].wr = <<>>

\* C29 as stated: if the encryption key environment variable is missing or
\* shorter than 16 characters, the encrypt verb fails without creating or
\* changing any file: neither .backup nor .encrypted is written.
C29_BadKeyFailsWithoutWriting ==
  \A p \in Procs :
    proc[p].op = "encrypt" /\ KeyUnusable =>
      /\ NothingWritten(p)
      /\ proc[p].pc = "done" => ~proc[p].res.ok

\* C29: if the encryption key environment variable is missing or shorter than
\* 16 characters, the encrypt verb creates and changes no file, neither .backup
\* nor .encrypted, and it fails unless the registry file is already an
\* envelope, which it reports before it looks at the key.
C29_BadKeyWritesNothing ==
  \A p \in Procs :
    proc[p].op = "encrypt" /\ KeyUnusable =>
      /\ NothingWritten(p)
      /\ proc[p].pc = "done" =>
           IF fs[MCP_CONFIG_PATH].exists /\ isEncrypted(fs[MCP_CONFIG_PATH])
           THEN proc[p].res.ok
           ELSE ~proc[p].res.ok

C29_Witness ==
  /\ Done(1, "encrypt") /\ envKey = ShortKey
  /\ proc[1].res = Err("KeyTooShort")
  /\ Len(ServersOf(RegistryIn(fs[MCP_CONFIG_PATH])).keys) = 1
  /\ ~fs[BACKUP_PATH].exists /\ ~fs[ENCRYPTED_CONFIG_PATH].exists


\* C30: for every request that dutch_pay accepts (total greater than 0, people
\* an integer of at least 1), every person's share, the last person's included,
\* is greater than zero and not greater than the per-person amount.
C30_SharesPositive ==
  DutchAccepted /\ arg.total.t = "num" =>
    /\ ret.perPerson.h > 0
    /\ ret.last.h > 0
    /\ ret.last.h <= ret.perPerson.h

====
